---- MODULE Spec2Model ----
(***************************************************************************)
(* RoofTracer permit ingestion: the storage adapter (source_state and      *)
(* permits tables), the Socrata and ArcGIS connectors' page loops, the     *)
(* orchestrator runIngestion and the continuous backfill sweep.            *)
(*                                                                         *)
(* Every `await` of the TypeScript source is a point where another task    *)
(* may run, so each action below is the code between two awaits.           *)
(***************************************************************************)
EXTENDS Integers, Sequences, FiniteSets, TLC

\* SQL NULL / JS null and undefined for the integer and date columns.
NULL == 0 - 1

\* JS truthiness of a nullable number: null, undefined and 0 are falsy.
Truthy(x) == x /= NULL /\ x /= 0

\* JS `a || b` on nullable numbers.
OrElse(a, b) == IF Truthy(a) THEN a ELSE b

\* Math.max of two numbers.
Max(a, b) == IF a >= b THEN a ELSE b

\* Math.min of two numbers.
Min(a, b) == IF a <= b THEN a ELSE b

(***************************************************************************)
(* Bounds of the model.                                                    *)
(***************************************************************************)
\* max_rows_per_run configured on each of the two sources.
MaxRowsPerRun == 2

\* Number of records between two progress updates (10 in routes.ts:370),
\* scaled so that a progress update happens inside a run of MaxRowsPerRun.
ProgressEvery == 2

\* Number of storage faults (a rejected permit write) and portal faults (a
\* page request that fails after its retries) the environment may inject.
MaxFaults == 1

\* Number of manual ingest requests (POST /api/sources/:id/ingest).
MaxTriggers == 1

(***************************************************************************)
(* Program constants.                                                      *)
(***************************************************************************)
\* `const limit = 1000` of the connectors' page loops.
limit == 1000

\* `source.max_rows_per_run || 1000` of runIngestion.
DefaultMaxRows == 1000

\* `source.max_rows_per_run || 50000` of the sweep.
SweepDefaultMaxRows == 50000

\* MAX_CONSECUTIVE_ZERO_SAVES of the sweep.
MAX_CONSECUTIVE_ZERO_SAVES == 3

(***************************************************************************)
(* The registered sources: source 1 is an ArcGIS feature service, source 2 *)
(* a Socrata dataset; both enabled, source 2 created after source 1.       *)
(***************************************************************************)
Tasks == {"sweep", "manual"}

SourceIds == {1, 2}

sources == [s \in SourceIds |->
              [id |-> s,
               platform |-> IF s = 1 THEN "arcgis" ELSE "socrata",
               max_rows_per_run |-> MaxRowsPerRun,
               max_runtime_minutes |-> 30,
               created_at |-> s]]

Modes == {"backfill", "incremental"}

\* A string argument that may be null; chars is the sequence of its characters.
Str(chars) == [isNull |-> FALSE, chars |-> chars]

NullString == [isNull |-> TRUE, chars |-> << >>]

\* No call of classifyAsRoofing has been made.
IdleClassifier ==
  [pc |-> "idle",
   rules |-> [exact_matches |-> << >>, partial_matches |-> << >>,
              primary |-> << >>, materials |-> << >>, actions |-> << >>,
              min_token_matches |-> 1, case_sensitive |-> FALSE],
   permitType |-> NullString, workDescription |-> NullString, result |-> FALSE]

\* The config column of a source as the seeds write it: the layer of a
\* feature service, the dataset of a JSON-dataset portal.
FullConfig(s) ==
  [layer_id |-> IF sources[s].platform = "arcgis" THEN 1 ELSE NULL,
   dataset_id |-> IF sources[s].platform = "socrata" THEN 1 ELSE NULL]

VARIABLES
  portal,        \* portal[s]: the raw rows source s serves, in portal order
  sourceState,   \* the source_state table, most recently updated row first
  permits,       \* the permits table, a set of rows
  run,           \* run[t]: the locals of task t's runIngestion call
  faults,        \* faults injected so far
  triggers,      \* manual ingest requests made so far
  sweep,         \* the locals of runContinuousBackfill
  deep,          \* the locals of runDeepIngestion
  glitches,      \* page requests that failed and were retried so far
  clock,         \* Date.now() of the rate limiter's process
  limiter,       \* a RateLimiter and the position of its caller
  released,      \* the times at which waitIfNeeded let a request through
  enabled,       \* enabled[s]: the enabled column of source s (0 or 1)
  config,        \* config[s]: the config column of source s
  classifier,    \* a call of classifyAsRoofing: rules, arguments, result
  geocoder,      \* the geocoding module: its globals and the calls of geocode
  pager          \* a connector's page loop, its records counted

\* The variables outside runIngestion and the sweep.
others == <<deep, glitches, clock, limiter, released, enabled, config, classifier,
           geocoder, pager>>

vars == <<portal, sourceState, permits, run, faults, triggers, sweep,
          deep, glitches, clock, limiter, released, enabled, config, classifier,
          geocoder, pager>>

\* No page loop is under way.
IdlePager ==
  [pc |-> "idle", maxRows |-> 0, corpus |-> 0, cap |-> 0,
   offset |-> 0, fetched |-> 0, batchLimit |-> 0, rows |-> 0,
   yielded |-> 0, pages |-> 0, max_rows_per_run |-> NULL, threshold |-> 0]

\* runDeepIngestion is not running.
IdleDeep ==
  [pc |-> "idle", source |-> NULL, runCount |-> 0, totalPermitsUpserted |-> 0,
   beforeCount |-> 0, existing |-> NULL]

\* new RateLimiter(requestsPerMinute): no request times, nobody waiting.
IdleLimiter ==
  [requestsPerMinute |-> 1, requestTimes |-> << >>, pc |-> "idle", wakeAt |-> 0,
   calls |-> 0, attempt |-> 0]

(***************************************************************************)
(* The portals.  A raw row carries the portal's record id (OBJECTID for    *)
(* the feature service), the address and issue date that enter the         *)
(* fingerprint, one further nullable attribute (owner), and whether the    *)
(* connector's normalize() raises on it (a Socrata address object whose    *)
(* human_address is not valid JSON).                                       *)
(***************************************************************************)
NullStr == "null"

RawRow(id, addr, date, owner, bad) ==
  [id |-> id, addr |-> addr, issue_date |-> date, owner |-> owner, bad |-> bad]

ArcGISRows ==
  << RawRow(1, "a", 2, "x", FALSE),
     RawRow(2, "b", 1, NullStr, FALSE),
     RawRow(3, "c", 1, "z", FALSE) >>

SocrataRows(bad) ==
  IF bad
  THEN << RawRow(1, "a", 2, NullStr, FALSE), RawRow(2, "d", 1, "y", TRUE) >>
  ELSE << RawRow(1, "a", 2, NullStr, FALSE) >>

\* A feature service with five records, for max_rows_per_run = 2 the
\* proportions of 2500 records under max_rows_per_run = 1000.
ArcGISRowsLong ==
  ArcGISRows \o << RawRow(4, "e", 3, "w", FALSE), RawRow(5, "f", 1, NullStr, FALSE) >>

\* A dataset with as many good rows as max_rows_per_run.
SocrataRowsFull ==
  << RawRow(1, "a", 2, NullStr, FALSE), RawRow(2, "d", 1, "y", FALSE) >>

\* The rows whose position is in keep, in order.
RECURSIVE SelectRows(_, _, _)
SelectRows(rows, keep, i) ==
  IF i > Len(rows) THEN << >>
  ELSE IF i \in keep
       THEN << rows[i] >> \o SelectRows(rows, keep, i + 1)
       ELSE SelectRows(rows, keep, i + 1)

\* rows[offset+1 .. offset+count], clipped to the rows there are.
Page(rows, offset, count) ==
  SubSeq(rows, offset + 1, Min(Len(rows), offset + count))

\* Variant of ArcGISQuery: the record at the cursor is returned again.
ArcGISQueryInclusive(rows, cursor, offset, count) ==
  Page(SelectRows(rows, {i \in DOMAIN rows : cursor = 0 \/ rows[i].id >= cursor}, 1),
       offset, count)

\* The feature service's answer to where=OBJECTID > cursor (1=1 when the
\* cursor is 0), orderByFields=OBJECTID, resultOffset, resultRecordCount.
\* The rows of a portal are kept in OBJECTID order.
ArcGISQuery(rows, cursor, offset, count) ==
  Page(SelectRows(rows, {i \in DOMAIN rows : cursor = 0 \/ rows[i].id > cursor}, 1),
       offset, count)

\* The dataset API's answer to $where=issue_date > since (no filter when
\* since is NULL), $offset, $limit.
SocrataQuery(rows, since, offset, count) ==
  Page(SelectRows(rows, {i \in DOMAIN rows :
                           since = NULL \/ rows[i].issue_date > since}, 1),
       offset, count)

\* The where parameter of a feature-service request: a comparison of a
\* field with a value, or '1=1'.
NoWhere == [field |-> "1=1", value |-> 0]

\* The feature service's answer to where=lastEditDate > timestamp 'since';
\* the records of a portal were last edited on their issue date.
ArcGISQueryEdited(rows, since, offset, count) ==
  Page(SelectRows(rows, {i \in DOMAIN rows : rows[i].issue_date > since}, 1),
       offset, count)

\* The feature service's answer to the where parameter.
ArcGISQueryWhere(rows, where, offset, count) ==
  IF where.field = "lastEditDate"
  THEN ArcGISQueryEdited(rows, where.value, offset, count)
  ELSE ArcGISQuery(rows, where.value, offset, count)

(***************************************************************************)
(* Storage adapter: source_state.                                          *)
(***************************************************************************)
\* Column defaults of a source_state row (schema.ts).
NewStateRow(id, s) ==
  [id |-> id, source_id |-> s,
   last_max_timestamp |-> NULL,
   last_max_objectid |-> NULL, last_issue_date |-> NULL,
   last_sync_at |-> NULL,
   rows_fetched |-> 0, rows_upserted |-> 0, errors |-> 0,
   is_running |-> 0, status_message |-> NullStr]

\* What getSourceState yields when there is no row (undefined).
NoStateRow == NewStateRow(NULL, NULL)

\* select ... where source_id = s order by updated_at desc limit 1
getSourceState(s) ==
  LET idx == {i \in DOMAIN sourceState : sourceState[i].source_id = s}
  IN  IF idx = {} THEN NoStateRow
      ELSE sourceState[CHOOSE i \in idx : \A j \in idx : i <= j]

\* { ...row, ...patch }: the fields present in the patch overwrite the row's.
Merge(row, patch) ==
  [f \in DOMAIN row |-> IF f \in DOMAIN patch THEN patch[f] ELSE row[f]]

\* The table without the row of that id.
RECURSIVE WithoutRow(_, _)
WithoutRow(rows, id) ==
  IF rows = << >> THEN << >>
  ELSE IF Head(rows).id = id THEN Tail(rows)
       ELSE << Head(rows) >> \o WithoutRow(Tail(rows), id)

RowById(rows, id) == rows[CHOOSE i \in DOMAIN rows : rows[i].id = id]

\* update source_state set patch, updated_at = now where id = existing.id
UpdateStateRow(rows, id, patch) ==
  << Merge(RowById(rows, id), patch) >> \o WithoutRow(rows, id)

\* insert into source_state values (patch): updated_at defaults to now
InsertStateRow(rows, patch) ==
  << Merge(NewStateRow(Len(rows) + 1, patch.source_id), patch) >> \o rows

\* The write half of upsertSourceState, after `existing` was read.
upsertSourceStateWrite(rows, existing, patch) ==
  IF existing /= NULL
  THEN UpdateStateRow(rows, existing, patch)
  ELSE InsertStateRow(rows, patch)

(***************************************************************************)
(* Storage adapter: permits.                                               *)
(***************************************************************************)
\* select * from permits where fingerprint = fp: the row's id, or NULL.
getPermitByFingerprint(rows, fp) ==
  IF \E p \in rows : p.fingerprint = fp
  THEN (CHOOSE p \in rows : p.fingerprint = fp).id
  ELSE NULL

\* A stored row: the record plus the generated id.
StoredPermit(id, permit) ==
  [id |-> id,
   source_id |-> permit.source_id,
   source_record_id |-> permit.source_record_id,
   fingerprint |-> permit.fingerprint,
   issue_date |-> permit.issue_date,
   owner_name |-> permit.owner_name]

\* Variant of UpdatePermit: a null column of the record keeps the stored value.
UpdatePermitKeepsNonNull(rows, existing, permit) ==
  {IF p.id = existing
   THEN [StoredPermit(p.id, permit) EXCEPT
           !.owner_name = IF permit.owner_name = NullStr
                          THEN p.owner_name ELSE permit.owner_name]
   ELSE p : p \in rows}

\* update permits set (permit) where id = existing: every column of the
\* record is written, null ones included; id is kept.
UpdatePermit(rows, existing, permit) ==
  {IF p.id = existing THEN StoredPermit(p.id, permit) ELSE p : p \in rows}

\* The UNIQUE constraint on permits.fingerprint rejects the insert.
UniqueViolation(rows, permit) ==
  \E p \in rows : p.fingerprint = permit.fingerprint

\* insert into permits values (permit)
InsertPermit(rows, permit) ==
  rows \cup {StoredPermit(Cardinality(rows) + 1, permit)}

\* Variant of upsertPermitThrows: no unique constraint on the fingerprint.
upsertPermitNeverThrows(rows, existing, permit) == FALSE

\* The write half of upsertPermit raises instead of writing.
upsertPermitThrows(rows, existing, permit) ==
  existing = NULL /\ UniqueViolation(rows, permit)

\* Variant of upsertPermitWrite: always inserts, under a fresh id.
upsertPermitAlwaysInserts(rows, existing, permit) ==
  {p \in rows : p.id /= existing} \cup
    {StoredPermit(Cardinality(rows) + 1, permit)}

\* The write half of upsertPermit, after `existing` was read.
upsertPermitWrite(rows, existing, permit) ==
  IF existing /= NULL
  THEN UpdatePermit(rows, existing, permit)
  ELSE InsertPermit(rows, permit)

\* select count(*) from permits where source_id = s
getSourcePermitCount(s) == Cardinality({p \in permits : p.source_id = s})

\* select max(source_record_id::integer) from permits where source_id = s
getMaxSourceRecordId(s) ==
  LET ids == {p.source_record_id : p \in {q \in permits : q.source_id = s}}
  IN  IF ids = {} THEN NULL ELSE CHOOSE m \in ids : \A n \in ids : m >= n

\* select count(*) from permits
getPermitStatsTotal == Cardinality(permits)

\* select * from sources order by created_at desc
RECURSIVE OrderByCreatedDesc(_)
OrderByCreatedDesc(S) ==
  IF S = {} THEN << >>
  ELSE LET newest == CHOOSE s \in S :
                       \A u \in S : sources[s].created_at >= sources[u].created_at
       IN  << newest >> \o OrderByCreatedDesc(S \ {newest})

getSources == OrderByCreatedDesc(SourceIds)

(***************************************************************************)
(* Normalization.                                                          *)
(***************************************************************************)
\* SHA-256 of the joined fingerprint fields: equal exactly when the fields
\* are equal.  Only the address and the issue date vary in the portals here.
generateFingerprint(addr, issue_date) == << addr, issue_date >>

\* The NormalizedPermit a connector yields for a raw row; max_objectid is
\* the provenance field the ArcGIS connector adds (NULL for Socrata).
normalize(s, raw, max_objectid) ==
  [source_id |-> s,
   source_record_id |-> raw.id,
   fingerprint |-> generateFingerprint(raw.addr, raw.issue_date),
   issue_date |-> raw.issue_date,
   owner_name |-> raw.owner,
   max_objectid |-> max_objectid]

NoPermit == normalize(NULL, RawRow(NULL, NullStr, NULL, NullStr, FALSE), NULL)

(***************************************************************************)
(* runIngestion (routes.ts) together with the connector iterator it        *)
(* consumes.  run[t] holds the locals of both.                             *)
(***************************************************************************)
IdleRun ==
  [pc |-> "idle", source |-> NULL, mode |-> "backfill",
   state |-> [last_max_timestamp |-> NULL,
             last_max_objectid |-> NULL, last_issue_date |-> NULL],
   existing |-> NULL,
   \* connector locals
   whereClause |-> NoWhere,
   startingObjectId |-> 0, offset |-> 0, fetched |-> 0, batchLimit |-> 0,
   page |-> << >>, pageLen |-> 0, connMaxObjectId |-> 0,
   \* orchestrator locals
   normalized |-> NoPermit,
   rowsFetched |-> 0, rowsUpserted |-> 0, errors |-> 0,
   lastIssueDate |-> NULL, maxObjectId |-> NULL,
   error |-> NullStr,
   \* const startTime = Date.now()
   startTime |-> 0,
   \* exponentialBackoff: its loop counter, the error of the attempt that
   \* failed last, and the delays the run has slept so far
   attempt |-> 0, fetchError |-> NullStr, delays |-> << >>]

\* const maxRows = source.max_rows_per_run || 1000
maxRowsOf(s) == OrElse(sources[s].max_rows_per_run, DefaultMaxRows)

\* Lines 306-350: load the source and its state row, build the connector
\* state, reset the counters.
StartedRun(s, mode) ==
  [IdleRun EXCEPT
     !.pc = "mark_read", !.source = s, !.mode = mode, !.startTime = clock,
     !.state = [last_max_timestamp |-> getSourceState(s).last_max_timestamp,
                last_max_objectid |-> getSourceState(s).last_max_objectid,
                last_issue_date |-> getSourceState(s).last_issue_date]]

\* The iterator hands the next feature of the current page to the for-await
\* body, which counts it and reaches its next await: the progress update
\* every ProgressEvery records, else upsertPermit.  normalize() raising
\* leaves the iterator and the for-await loop for the outer catch.
Yield(r) ==
  LET raw == Head(r.page)
      isArc == sources[r.source].platform = "arcgis"
      connMax == IF isArc /\ Truthy(raw.id) /\ raw.id > r.connMaxObjectId
                 THEN raw.id ELSE r.connMaxObjectId
  IN  IF raw.bad
      THEN [r EXCEPT !.pc = "fail_read", !.error = "normalize", !.page = << >>]
      ELSE [r EXCEPT
              !.page = Tail(r.page),
              !.connMaxObjectId = connMax,
              !.normalized = normalize(r.source, raw, IF isArc THEN connMax ELSE NULL),
              !.rowsFetched = r.rowsFetched + 1,
              !.pc = IF (r.rowsFetched + 1) % ProgressEvery = 0
                     THEN "prog_read" ELSE "permit_read"]

\* After a record's upsert: the next feature of the page, or the end of the
\* page (fetched += length; offset += batchLimit; short page or maxRows
\* reached ends the iteration, else the next page is requested).
NextRecord(r) ==
  IF r.page /= << >> THEN Yield(r)
  ELSE LET fetched == r.fetched + r.pageLen
       IN  [r EXCEPT
              !.fetched = fetched,
              !.offset = r.offset + r.batchLimit,
              !.normalized = NoPermit,
              !.pc = IF r.pageLen < r.batchLimit \/ ~(fetched < maxRowsOf(r.source))
                     THEN "final_read" ELSE "fetch"]

\* The page the portal returns for the connector's request.
FetchedPage(r) ==
  LET count == Min(limit, maxRowsOf(r.source) - r.fetched)
  IN  IF sources[r.source].platform = "arcgis"
      THEN ArcGISQueryWhere(portal[r.source], r.whereClause, r.offset, count)
      ELSE SocrataQuery(portal[r.source],
                        IF r.mode = "incremental" THEN r.state.last_issue_date ELSE NULL,
                        r.offset, count)

\* if (issue_date && (!lastIssueDate || issue_date > lastIssueDate))
TrackIssueDate(lastIssueDate, issue_date) ==
  IF Truthy(issue_date) /\ (~Truthy(lastIssueDate) \/ issue_date > lastIssueDate)
  THEN issue_date ELSE lastIssueDate

\* Variant of TrackObjectId: the first provenance value of the run is kept.
TrackObjectIdFirst(maxObjectId, provenanceObjectId) ==
  IF Truthy(maxObjectId) THEN maxObjectId ELSE provenanceObjectId

\* if (provenanceObjectId && (!maxObjectId || provenanceObjectId > maxObjectId))
TrackObjectId(maxObjectId, provenanceObjectId) ==
  IF Truthy(provenanceObjectId) /\ (~Truthy(maxObjectId) \/ provenanceObjectId > maxObjectId)
  THEN provenanceObjectId ELSE maxObjectId

\* The InsertPermit built from the normalized record (lines 379-401).
permitData(n) ==
  [source_id |-> n.source_id, source_record_id |-> n.source_record_id,
   fingerprint |-> n.fingerprint, issue_date |-> n.issue_date,
   owner_name |-> n.owner_name]

\* Variant of Carry: the prior cursor is not carried forward.
CarryDropsPrior(a, b) == OrElse(a, NULL)

\* a || b || null
Carry(a, b) == OrElse(a, OrElse(b, NULL))

\* The state patches runIngestion writes.
MarkRunningPatch(r) ==
  [source_id |-> r.source, is_running |-> 1, status_message |-> "starting"]

ProgressPatch(r) ==
  [source_id |-> r.source, is_running |-> 1, status_message |-> "processing"]

FinalPatch(r) ==
  [source_id |-> r.source,
   \* lastTimestamp is never assigned: null || state.last_max_timestamp || null
   last_max_timestamp |-> Carry(NULL, r.state.last_max_timestamp),
   last_max_objectid |-> Carry(r.maxObjectId, r.state.last_max_objectid),
   last_issue_date |-> Carry(r.lastIssueDate, r.state.last_issue_date),
   \* last_sync_at: new Date()
   last_sync_at |-> clock,
   rows_fetched |-> r.rowsFetched,
   rows_upserted |-> r.rowsUpserted,
   errors |-> r.errors,
   is_running |-> 0,
   status_message |-> "complete"]

\* Variant of FailedPatch: the failure write does not reset is_running.
FailedPatchKeepsRunning(r) ==
  [source_id |-> r.source, status_message |-> "failed"]

\* Variant of FailedPatch: the failure write also records the counters of
\* the failed run.
FailedPatchWithCounters(r) ==
  [source_id |-> r.source, is_running |-> 0, status_message |-> "failed",
   rows_fetched |-> r.rowsFetched, rows_upserted |-> r.rowsUpserted,
   errors |-> r.errors]

FailedPatch(r) ==
  [source_id |-> r.source, is_running |-> 0, status_message |-> "failed"]

(***************************************************************************)
(* Actions of runIngestion, task t.                                        *)
(***************************************************************************)
Finished(t) == run[t].pc \in {"idle", "done", "threw"}

\* The read half of upsertSourceState: existing = getSourceState(source_id).
ReadExisting(t, from, to) ==
  /\ run[t].pc = from
  /\ run' = [run EXCEPT ![t].existing = getSourceState(run[t].source).id,
                        ![t].pc = to]
  /\ UNCHANGED <<others, portal, sourceState, permits, faults, triggers, sweep>>

\* The write half of upsertSourceState.
WriteState(t, from, to, patch) ==
  /\ run[t].pc = from
  /\ sourceState' = upsertSourceStateWrite(sourceState, run[t].existing, patch)
  /\ run' = [run EXCEPT ![t] = IF to \in {"done", "threw"}
                                THEN [IdleRun EXCEPT !.pc = to]
                                ELSE [run[t] EXCEPT !.existing = NULL, !.pc = to]]
  /\ UNCHANGED <<others, portal, permits, faults, triggers, sweep>>

\* POST /api/sources/:id/ingest?mode=backfill|incremental on an enabled
\* source: runIngestion starts in the background.
ManualTrigger(s, mode) ==
  /\ Finished("manual")
  /\ enabled[s] /= 0
  /\ triggers < MaxTriggers
  /\ triggers' = triggers + 1
  /\ run' = [run EXCEPT !["manual"] = StartedRun(s, mode)]
  /\ UNCHANGED <<others, portal, sourceState, permits, faults, sweep>>

\* Lines 353-358: mark the source as running.
MarkRead(t) == ReadExisting(t, "mark_read", "mark_write")

MarkWrite(t) ==
  WriteState(t, "mark_write",
             IF sources[run[t].source].platform = "arcgis" THEN "open" ELSE "fetch",
             MarkRunningPatch(run[t]))

\* Variant of whereClause: the timestamp cursor is preferred to OBJECTID.
whereClauseTimestampFirst(mode, startingObjectId, last_max_timestamp) ==
  IF mode = "incremental" /\ Truthy(last_max_timestamp)
  THEN [field |-> "lastEditDate", value |-> last_max_timestamp]
  ELSE IF startingObjectId > 0
       THEN [field |-> "OBJECTID", value |-> startingObjectId]
       ELSE NoWhere

\* Lines 49-51 (backfill) and 110-115 (incremental); buildArcGISUrl turns a
\* null clause into '1=1'.
whereClause(mode, startingObjectId, last_max_timestamp) ==
  IF startingObjectId > 0
  THEN [field |-> "OBJECTID", value |-> startingObjectId]
  ELSE IF mode = "incremental" /\ Truthy(last_max_timestamp)
       THEN [field |-> "lastEditDate", value |-> last_max_timestamp]
       ELSE NoWhere

\* ArcGIS backfill/incremental, lines 37-56: the starting cursor.
Open(t) ==
  /\ run[t].pc = "open"
  /\ LET start == Max(OrElse(run[t].state.last_max_objectid, 0),
                      OrElse(getMaxSourceRecordId(run[t].source), 0))
     IN  run' = [run EXCEPT ![t].startingObjectId = start,
                            ![t].whereClause = whereClause(run[t].mode, start,
                                                           run[t].state.last_max_timestamp),
                            ![t].connMaxObjectId = start,
                            ![t].pc = "fetch"]
  /\ UNCHANGED <<others, portal, sourceState, permits, faults, triggers, sweep>>

\* The url buildArcGISUrl / buildSocrataUrl make of config c names a resource
\* of the portal: `${config.layer_id}` and `${config.dataset_id}` are not
\* the string "undefined".
NamesResource(s, c) ==
  IF sources[s].platform = "arcgis" THEN c.layer_id /= NULL ELSE c.dataset_id /= NULL

\* One turn of the connector's while loop: the page request succeeds.  An
\* empty page ends the iteration; else its first feature is yielded.
FetchOk(t) ==
  /\ run[t].pc = "fetch"
  /\ NamesResource(run[t].source, config[run[t].source])
  /\ LET rows == FetchedPage(run[t])
         r == [run[t] EXCEPT
                 !.batchLimit = Min(limit, maxRowsOf(run[t].source) - run[t].fetched),
                 !.page = rows, !.pageLen = Len(rows), !.attempt = 0]
     IN  run' = [run EXCEPT ![t] = IF rows = << >>
                                   THEN [r EXCEPT !.pc = "final_read"]
                                   ELSE Yield(r)]
  /\ UNCHANGED <<others, portal, sourceState, permits, faults, triggers, sweep>>

\* The page request fails on every attempt of exponentialBackoff: the error
\* leaves the iterator and reaches the outer catch of runIngestion.
FetchFail(t) ==
  /\ run[t].pc = "fetch"
  /\ faults < MaxFaults
  /\ faults' = faults + 1
  /\ run' = [run EXCEPT ![t].pc = "fail_read", ![t].error = "fetch"]
  /\ UNCHANGED <<others, portal, sourceState, permits, triggers, sweep>>

\* Lines 370-376: the progress update.
ProgRead(t) == ReadExisting(t, "prog_read", "prog_write")

ProgWrite(t) == WriteState(t, "prog_write", "permit_read", ProgressPatch(run[t]))

\* upsertPermit, read half: existing = getPermitByFingerprint(fingerprint).
PermitRead(t) ==
  /\ run[t].pc = "permit_read"
  /\ run' = [run EXCEPT
               ![t].existing = getPermitByFingerprint(permits, run[t].normalized.fingerprint),
               ![t].pc = "permit_write"]
  /\ UNCHANGED <<others, portal, sourceState, permits, faults, triggers, sweep>>

\* Lines 404-415: the upsert returned.
AfterUpsert(r) ==
  NextRecord([r EXCEPT
                !.existing = NULL,
                !.rowsUpserted = r.rowsUpserted + 1,
                !.lastIssueDate = TrackIssueDate(r.lastIssueDate, r.normalized.issue_date),
                !.maxObjectId = TrackObjectId(r.maxObjectId, r.normalized.max_objectid)])

\* Variant of AfterUpsertError: the upsert error is not caught per record.
AfterUpsertErrorPropagates(r) ==
  [r EXCEPT !.existing = NULL, !.page = << >>, !.pc = "fail_read", !.error = "upsert"]

\* Variant of AfterUpsertError: the failed upsert is not counted.
AfterUpsertErrorUncounted(r) ==
  NextRecord([r EXCEPT !.existing = NULL])

\* Lines 416-419: the upsert raised; the inner catch counts the error and
\* the loop goes on.
AfterUpsertError(r) ==
  NextRecord([r EXCEPT !.existing = NULL, !.errors = r.errors + 1])

\* upsertPermit, write half, succeeding.
PermitWriteOk(t) ==
  /\ run[t].pc = "permit_write"
  /\ ~upsertPermitThrows(permits, run[t].existing, permitData(run[t].normalized))
  /\ permits' = upsertPermitWrite(permits, run[t].existing, permitData(run[t].normalized))
  /\ run' = [run EXCEPT ![t] = AfterUpsert(run[t])]
  /\ UNCHANGED <<others, portal, sourceState, faults, triggers, sweep>>

\* upsertPermit, write half, rejected by the unique constraint.
PermitWriteConflict(t) ==
  /\ run[t].pc = "permit_write"
  /\ upsertPermitThrows(permits, run[t].existing, permitData(run[t].normalized))
  /\ run' = [run EXCEPT ![t] = AfterUpsertError(run[t])]
  /\ UNCHANGED <<others, portal, sourceState, permits, faults, triggers, sweep>>

\* upsertPermit, write half, rejected by the database for another reason.
PermitWriteFault(t) ==
  /\ run[t].pc = "permit_write"
  /\ faults < MaxFaults
  /\ faults' = faults + 1
  /\ run' = [run EXCEPT ![t] = AfterUpsertError(run[t])]
  /\ UNCHANGED <<others, portal, sourceState, permits, triggers, sweep>>

\* Lines 422-441: the final state of a clean run.
FinalRead(t) == ReadExisting(t, "final_read", "final_write")

FinalWrite(t) == WriteState(t, "final_write", "done", FinalPatch(run[t]))

\* Lines 446-457: the outer catch marks the run failed and rethrows.
FailRead(t) == ReadExisting(t, "fail_read", "fail_write")

FailWrite(t) == WriteState(t, "fail_write", "threw", FailedPatch(run[t]))

RunStep(t) ==
  \/ MarkRead(t) \/ MarkWrite(t) \/ Open(t)
  \/ FetchOk(t) \/ FetchFail(t)
  \/ ProgRead(t) \/ ProgWrite(t)
  \/ PermitRead(t)
  \/ PermitWriteOk(t) \/ PermitWriteConflict(t) \/ PermitWriteFault(t)
  \/ FinalRead(t) \/ FinalWrite(t)
  \/ FailRead(t) \/ FailWrite(t)

(***************************************************************************)
(* runContinuousBackfill (index.ts): the sweep, which calls runIngestion   *)
(* as task "sweep".  Its timers (1 s between batches, 30 s before a retry) *)
(* only delay the next action; the 5 minute sleep is the state "sleep".    *)
(***************************************************************************)
IdleSweep ==
  [pc |-> "get_sources", enabledSources |-> << >>, idx |-> 0,
   consecutiveZeroSaves |-> 0, beforeCount |-> 0, rowsFetched |-> 0]

SweepSource == sweep.enabledSources[sweep.idx]

\* const maxRows = source.max_rows_per_run || 50000
sweepMaxRowsOf(s) == OrElse(sources[s].max_rows_per_run, SweepDefaultMaxRows)

\* Lines 95-103: the enabled sources, in getSources() order.
SweepGetSources ==
  /\ sweep.pc = "get_sources"
  /\ LET list == SelectSeq(getSources, LAMBDA s : enabled[s] /= 0)
     IN  sweep' = [IdleSweep EXCEPT
                     !.enabledSources = list,
                     !.idx = IF list = << >> THEN 0 ELSE 1,
                     !.pc = IF list = << >> THEN "sleep" ELSE "before_count"]
  /\ UNCHANGED <<others, portal, sourceState, permits, run, faults, triggers>>

\* Line 108.
SweepBeforeCount ==
  /\ sweep.pc = "before_count"
  /\ sweep' = [sweep EXCEPT !.beforeCount = getSourcePermitCount(SweepSource),
                            !.pc = "call"]
  /\ UNCHANGED <<others, portal, sourceState, permits, run, faults, triggers>>

\* Line 113: await runIngestion(source.id, "backfill").
SweepCall ==
  /\ sweep.pc = "call"
  /\ run' = [run EXCEPT !["sweep"] = StartedRun(SweepSource, "backfill")]
  /\ sweep' = [sweep EXCEPT !.pc = "running"]
  /\ UNCHANGED <<others, portal, sourceState, permits, faults, triggers>>

\* Variant of SweepRetry: a failed batch makes the sweep leave the source.
SweepRetryAdvances ==
  /\ sweep.pc = "running"
  /\ run["sweep"].pc = "threw"
  /\ sweep' = [sweep EXCEPT
                 !.idx = IF sweep.idx < Len(sweep.enabledSources) THEN sweep.idx + 1 ELSE 0,
                 !.pc = IF sweep.idx < Len(sweep.enabledSources)
                        THEN "before_count" ELSE "sleep"]
  /\ UNCHANGED <<others, portal, sourceState, permits, run, faults, triggers>>

\* Lines 114-119: the batch failed; retry the same source.
SweepRetry ==
  /\ sweep.pc = "running"
  /\ run["sweep"].pc = "threw"
  /\ sweep' = [sweep EXCEPT !.pc = "before_count"]
  /\ UNCHANGED <<others, portal, sourceState, permits, run, faults, triggers>>

\* Lines 122-124: the batch returned; read the state row.
SweepAfterState ==
  /\ sweep.pc = "running"
  /\ run["sweep"].pc = "done"
  /\ sweep' = [sweep EXCEPT
                 !.rowsFetched = OrElse(getSourceState(SweepSource).rows_fetched, 0),
                 !.pc = "after_count"]
  /\ UNCHANGED <<others, portal, sourceState, permits, run, faults, triggers>>

\* The sweep leaves the current source: the next one, or the sleep.
NextSource(w) ==
  IF w.idx < Len(w.enabledSources)
  THEN [w EXCEPT !.idx = w.idx + 1, !.consecutiveZeroSaves = 0, !.pc = "before_count"]
  ELSE [w EXCEPT !.idx = 0, !.consecutiveZeroSaves = 0, !.pc = "sleep"]

\* Variant of AfterBatch: the first zero-save batch already ends the loop.
AfterBatchNoCount(w, permitsAdded) ==
  LET maxRows == sweepMaxRowsOf(w.enabledSources[w.idx])
  IN  IF (permitsAdded = 0 /\ w.rowsFetched >= maxRows) \/ w.rowsFetched < maxRows
      THEN NextSource(w)
      ELSE [w EXCEPT !.consecutiveZeroSaves = 0, !.pc = "before_count"]

\* Variant of AfterBatch: a short batch ends the loop only when it added
\* no permit.
AfterBatchWhenIdle(w, permitsAdded) ==
  LET maxRows == sweepMaxRowsOf(w.enabledSources[w.idx])
      zeroSave == permitsAdded = 0 /\ w.rowsFetched >= maxRows
      zeros == IF zeroSave THEN w.consecutiveZeroSaves + 1 ELSE 0
  IN  IF zeroSave /\ zeros >= MAX_CONSECUTIVE_ZERO_SAVES THEN NextSource(w)
      ELSE IF w.rowsFetched < maxRows /\ permitsAdded = 0 THEN NextSource(w)
      ELSE [w EXCEPT !.consecutiveZeroSaves = zeros, !.pc = "before_count"]

\* Variant of AfterBatch: a full batch that added no permit is not counted.
AfterBatchUncounted(w, permitsAdded) ==
  LET maxRows == sweepMaxRowsOf(w.enabledSources[w.idx])
  IN  IF w.rowsFetched < maxRows THEN NextSource(w)
      ELSE [w EXCEPT !.consecutiveZeroSaves = 0, !.pc = "before_count"]

\* Lines 125-150: the exhaustion rule.
AfterBatch(w, permitsAdded) ==
  LET maxRows == sweepMaxRowsOf(w.enabledSources[w.idx])
      zeroSave == permitsAdded = 0 /\ w.rowsFetched >= maxRows
      zeros == IF zeroSave THEN w.consecutiveZeroSaves + 1 ELSE 0
  IN  IF zeroSave /\ zeros >= MAX_CONSECUTIVE_ZERO_SAVES THEN NextSource(w)
      ELSE IF w.rowsFetched < maxRows THEN NextSource(w)
      ELSE [w EXCEPT !.consecutiveZeroSaves = zeros, !.pc = "before_count"]

SweepAfterCount ==
  /\ sweep.pc = "after_count"
  /\ sweep' = AfterBatch(sweep, getSourcePermitCount(SweepSource) - sweep.beforeCount)
  /\ UNCHANGED <<others, portal, sourceState, permits, run, faults, triggers>>

\* Line 158: the 5 minute sleep is over.
SweepWake ==
  /\ sweep.pc = "sleep"
  /\ sweep' = [sweep EXCEPT !.pc = "get_sources"]
  /\ UNCHANGED <<others, portal, sourceState, permits, run, faults, triggers>>

SweepStep ==
  \/ SweepGetSources \/ SweepBeforeCount \/ SweepCall
  \/ SweepRetry \/ SweepAfterState \/ SweepAfterCount \/ SweepWake

\* The tasks that call geocodingService.geocode, and the address
\* (normalized) they ask for.
Callers == {"c1", "c2", "c3"}

Addresses == {"a1"}

\* const RATE_LIMIT_MS = 1100
RATE_LIMIT_MS == 1100

\* geocode(address, retries = 2)
GeocodeRetries == 2

\* The locals of a call of geocode that has not been made.
IdleCall == [pc |-> "idle", address |-> NullStr, retries |-> 0, wakeAt |-> 0]

\* The module after loading: lastRequestTime = 0, an empty Map, an empty
\* geocode_cache table; requests is the history of the times at which
\* fetch() was called, the last two of them.
IdleGeocoder ==
  [lastRequestTime |-> 0,
   geocodeCache |-> [a \in Addresses |-> NullStr],
   geocode_cache |-> [a \in Addresses |-> NullStr],
   call |-> [c \in Callers |-> IdleCall],
   requests |-> << >>,
   calls |-> 0, sent |-> 0]

(***************************************************************************)
(* The system.                                                             *)
(***************************************************************************)
Init ==
  /\ \E bad \in BOOLEAN : portal = [s \in SourceIds |->
                                      IF s = 1 THEN ArcGISRows ELSE SocrataRows(bad)]
  /\ sourceState = << >>
  /\ permits = {}
  /\ run = [t \in Tasks |-> IdleRun]
  /\ faults = 0
  /\ triggers = 0
  /\ sweep = IdleSweep
  /\ deep = IdleDeep
  /\ glitches = 0
  /\ clock = 0
  /\ limiter = IdleLimiter
  /\ released = << >>
  /\ classifier = IdleClassifier
  /\ geocoder = IdleGeocoder
  /\ pager = IdlePager
  /\ enabled = [s \in SourceIds |-> 1]
  /\ config = [s \in SourceIds |-> FullConfig(s)]

Next ==
  \/ \E s \in SourceIds, mode \in Modes : ManualTrigger(s, mode)
  \/ \E t \in Tasks : RunStep(t)
  \/ SweepStep

Spec == Init /\ [][Next]_vars

(***************************************************************************)
(* The sweep on its own, over portals of several sizes.                    *)
(***************************************************************************)
\* Lines 160-164: a storage call of the sweep itself raised; the sweep
\* sleeps a minute and starts over with getSources().
SweepFault ==
  /\ sweep.pc \in {"get_sources", "before_count", "after_count"}
  /\ faults < MaxFaults
  /\ faults' = faults + 1
  /\ sweep' = [sweep EXCEPT !.pc = "get_sources"]
  /\ UNCHANGED <<others, portal, sourceState, permits, run, triggers>>

\* runIngestion with no other run beside it: no insert can race its own.
SoloRunStep(t) ==
  \/ MarkRead(t) \/ MarkWrite(t) \/ Open(t)
  \/ FetchOk(t) \/ FetchFail(t)
  \/ ProgRead(t) \/ ProgWrite(t)
  \/ PermitRead(t)
  \/ PermitWriteOk(t) \/ PermitWriteFault(t)
  \/ FinalRead(t) \/ FinalWrite(t)
  \/ FailRead(t) \/ FailWrite(t)

SweepPortals ==
  {[s \in SourceIds |-> IF s = 1 THEN a ELSE d] :
     a \in {ArcGISRows, ArcGISRowsLong},
     d \in {SocrataRows(FALSE), SocrataRows(TRUE), SocrataRowsFull}}

SweepInit ==
  /\ portal \in SweepPortals
  /\ sourceState = << >>
  /\ permits = {}
  /\ run = [t \in Tasks |-> IdleRun]
  /\ faults = 0
  /\ triggers = 0
  /\ sweep = IdleSweep
  /\ deep = IdleDeep
  /\ glitches = 0
  /\ clock = 0
  /\ limiter = IdleLimiter
  /\ released = << >>
  /\ classifier = IdleClassifier
  /\ geocoder = IdleGeocoder
  /\ pager = IdlePager
  /\ enabled = [s \in SourceIds |-> 1]
  /\ config = [s \in SourceIds |-> FullConfig(s)]

SweepNext ==
  \/ SoloRunStep("sweep")
  \/ SweepStep
  \/ SweepFault

SweepSpec ==
  /\ SweepInit /\ [][SweepNext]_vars
  /\ WF_vars(SoloRunStep("sweep"))
  /\ WF_vars(SweepStep)

\* The system for the progress properties: the manual trigger is used on the
\* dataset source, whose runs then overlap the sweep's runs of that source.
LiveNext ==
  \/ \E mode \in Modes : ManualTrigger(2, mode)
  \/ \E t \in Tasks : RunStep(t)
  \/ SweepStep

\* Every continuation the event loop holds is eventually run: a task that
\* can take a step takes one.
FairSpec ==
  /\ Init /\ [][LiveNext]_vars
  /\ \A t \in Tasks : WF_vars(RunStep(t))
  /\ WF_vars(SweepStep)

(***************************************************************************)
(* runDeepIngestion (routes.ts), started by POST /api/sources/:id/ingest   *)
(* with mode=deep; its runIngestion calls are those of task "manual".      *)
(***************************************************************************)
\* `source.max_rows_per_run || 50000` of runDeepIngestion.
DeepDefaultMaxRows == 50000

\* const maxRows = source.max_rows_per_run || 50000
deepMaxRowsOf(s) == OrElse(sources[s].max_rows_per_run, DeepDefaultMaxRows)

DeepFinished == deep.pc \in {"idle", "done", "threw"}

\* Lines 145-172 and 461-471: the request starts runDeepIngestion.
DeepTrigger(s) ==
  /\ DeepFinished /\ Finished("manual")
  /\ enabled[s] /= 0
  /\ triggers < MaxTriggers
  /\ triggers' = triggers + 1
  /\ deep' = [IdleDeep EXCEPT !.pc = "before_count", !.source = s]
  /\ UNCHANGED <<portal, sourceState, permits, run, faults, sweep, enabled, config, classifier, geocoder, pager,
                 glitches, clock, limiter, released>>

\* Lines 475-479: runCount++ and the permit count before the batch.
DeepBeforeCount ==
  /\ deep.pc = "before_count"
  /\ deep' = [deep EXCEPT !.runCount = deep.runCount + 1,
                          !.beforeCount = getSourcePermitCount(deep.source),
                          !.pc = "call"]
  /\ UNCHANGED <<portal, sourceState, permits, run, faults, triggers, sweep, enabled, config, classifier, geocoder, pager,
                 glitches, clock, limiter, released>>

\* Line 482: await runIngestion(sourceId, "backfill").
DeepCall ==
  /\ deep.pc = "call"
  /\ run' = [run EXCEPT !["manual"] = StartedRun(deep.source, "backfill")]
  /\ deep' = [deep EXCEPT !.pc = "running"]
  /\ UNCHANGED <<portal, sourceState, permits, faults, triggers, sweep, enabled, config, classifier, geocoder, pager,
                 glitches, clock, limiter, released>>

\* Variant of DeepAfterBatch: the loop goes on until a batch adds nothing.
DeepAfterBatchUntilZero(d, permitsAdded) ==
  [d EXCEPT !.totalPermitsUpserted = d.totalPermitsUpserted + permitsAdded,
            !.pc = IF permitsAdded = 0 THEN "status_read" ELSE "before_count"]

\* Lines 484-495: the batch returned; fewer permits added than maxRows
\* ends the loop, else the next batch follows the 1 s delay.
DeepAfterBatch(d, permitsAdded) ==
  [d EXCEPT !.totalPermitsUpserted = d.totalPermitsUpserted + permitsAdded,
            !.pc = IF permitsAdded < deepMaxRowsOf(d.source)
                   THEN "status_read" ELSE "before_count"]

DeepAfterCount ==
  /\ deep.pc = "running"
  /\ run["manual"].pc = "done"
  /\ deep' = DeepAfterBatch(deep, getSourcePermitCount(deep.source) - deep.beforeCount)
  /\ UNCHANGED <<portal, sourceState, permits, run, faults, triggers, sweep, enabled, config, classifier, geocoder, pager,
                 glitches, clock, limiter, released>>

\* Line 507: runIngestion threw; the catch block is entered.
DeepRunFailed ==
  /\ deep.pc = "running"
  /\ run["manual"].pc = "threw"
  /\ deep' = [deep EXCEPT !.pc = "fail_read"]
  /\ UNCHANGED <<portal, sourceState, permits, run, faults, triggers, sweep, enabled, config, classifier, geocoder, pager,
                 glitches, clock, limiter, released>>

\* The patches runDeepIngestion writes (lines 502-505 and 510-514).
DeepCompletePatch(d) ==
  [source_id |-> d.source, status_message |-> "deep complete"]

DeepFailedPatch(d) ==
  [source_id |-> d.source, is_running |-> 0, status_message |-> "deep failed"]

\* The read half of upsertSourceState in runDeepIngestion.
DeepReadExisting(from, to) ==
  /\ deep.pc = from
  /\ deep' = [deep EXCEPT !.existing = getSourceState(deep.source).id, !.pc = to]
  /\ UNCHANGED <<portal, sourceState, permits, run, faults, triggers, sweep, enabled, config, classifier, geocoder, pager,
                 glitches, clock, limiter, released>>

\* The write half of upsertSourceState in runDeepIngestion.
DeepWriteState(from, to, patch) ==
  /\ deep.pc = from
  /\ sourceState' = upsertSourceStateWrite(sourceState, deep.existing, patch)
  /\ deep' = [deep EXCEPT !.pc = to]
  /\ UNCHANGED <<portal, permits, run, faults, triggers, sweep, enabled, config, classifier, geocoder, pager,
                 glitches, clock, limiter, released>>

\* Lines 501-504 are the final status write, lines 509-515 the catch block.
DeepStep ==
  \/ DeepBeforeCount \/ DeepCall \/ DeepAfterCount \/ DeepRunFailed
  \/ DeepReadExisting("status_read", "status_write")
  \/ DeepWriteState("status_write", "done", DeepCompletePatch(deep))
  \/ DeepReadExisting("fail_read", "fail_write")
  \/ DeepWriteState("fail_write", "threw", DeepFailedPatch(deep))

\* Portals of several sizes, the empty one included.
DeepPortals ==
  {[s \in SourceIds |-> IF s = 1 THEN a ELSE d] :
     a \in {SubSeq(ArcGISRowsLong, 1, n) : n \in 0..5},
     d \in {SocrataRows(FALSE), SocrataRows(TRUE), SocrataRowsFull,
            SocrataRowsFull \o << RawRow(3, "g", 3, NullStr, FALSE) >>}}

DeepInit ==
  /\ portal \in DeepPortals
  /\ sourceState = << >>
  /\ permits = {}
  /\ run = [t \in Tasks |-> IdleRun]
  /\ faults = 0
  /\ triggers = 0
  /\ sweep = IdleSweep
  /\ deep = IdleDeep
  /\ glitches = 0
  /\ clock = 0
  /\ limiter = IdleLimiter
  /\ released = << >>
  /\ classifier = IdleClassifier
  /\ geocoder = IdleGeocoder
  /\ pager = IdlePager
  /\ enabled = [s \in SourceIds |-> 1]
  /\ config = [s \in SourceIds |-> FullConfig(s)]

DeepNext ==
  \/ \E s \in SourceIds : DeepTrigger(s)
  \/ DeepStep
  \/ SoloRunStep("manual")

\* The background task of the request is run to its end.
DeepSpec ==
  /\ DeepInit /\ [][DeepNext]_vars
  /\ WF_vars(DeepStep)
  /\ WF_vars(SoloRunStep("manual"))

(***************************************************************************)
(* RateLimiter (connectors/base).  A connector owns one limiter and awaits *)
(* waitIfNeeded before each page request, so the calls on one limiter      *)
(* follow one another.  clock is Date.now() in ms; released is the history *)
(* of the timestamps appended, the last requestsPerMinute + 1 of them.     *)
(***************************************************************************)
\* now - 60000
Minute == 60000

\* + 100: "Add 100ms buffer"
Buffer == 100

\* The waitIfNeeded calls of one behaviour.
MaxCalls == 4

\* The values of requestsPerMinute (a source's max_requests_per_minute || 10).
Rates == {1, 2}

\* The time between the end of a call and the next call, in ms.
Gaps == {0, 1, 99, 100, 30000, 59999, 60000, 60001}

\* How much later than asked a timer fires, and how far Date.now() moves
\* on between two statements of one turn, in ms.
Lags == {0, 1}

\* this.requestTimes.filter((time) => time > oneMinuteAgo)
filterRecent(requestTimes, now) ==
  SelectSeq(requestTimes, LAMBDA time : time > now - Minute)

\* Variant of waitTime: the wait is the buffer alone.
waitTimeBufferOnly(now, oldestRequest) == Buffer

\* const waitTime = 60000 - (now - oldestRequest) + 100
waitTime(now, oldestRequest) == Minute - (now - oldestRequest) + Buffer

\* The history of releases after one more at time t.
Released(t) ==
  LET h == Append(released, t)
  IN  IF Len(h) > limiter.requestsPerMinute + 1 THEN Tail(h) ELSE h

\* waitIfNeeded is called gap ms after the previous call returned: lines
\* 300-306, then either the timer of line 312 is set, or (line 321) the
\* timestamp is appended.  The request that follows the return is attempt 0
\* of exponentialBackoff.
WaitIfNeededCall ==
  /\ limiter.pc = "idle"
  /\ limiter.calls < MaxCalls
  /\ \E gap \in Gaps, lag \in Lags :
       LET now == clock + gap
           recent == filterRecent(limiter.requestTimes, now)
           wait == waitTime(now, recent[1])
       IN  IF Len(recent) >= limiter.requestsPerMinute /\ wait > 0
           THEN /\ clock' = now
                /\ limiter' = [limiter EXCEPT !.requestTimes = recent,
                                              !.calls = limiter.calls + 1,
                                              !.pc = "waiting",
                                              !.wakeAt = now + wait]
                /\ released' = released
           ELSE /\ clock' = now + lag
                /\ limiter' = [limiter EXCEPT
                                 !.requestTimes =
                                    Append(IF Len(recent) >= limiter.requestsPerMinute
                                           THEN filterRecent(recent, now + lag)
                                           ELSE recent,
                                           now + lag),
                                 !.calls = limiter.calls + 1,
                                 !.attempt = 0]
                /\ released' = Released(now + lag)
  /\ UNCHANGED <<portal, sourceState, permits, run, faults, triggers, sweep, enabled, config, classifier, geocoder, pager,
                 deep, glitches>>

\* Lines 315-321: the timer fired; the list is filtered again and the
\* timestamp appended.
WaitIfNeededWake ==
  /\ limiter.pc = "waiting"
  /\ \E late \in Lags, lag \in Lags :
       LET newNow == limiter.wakeAt + late
       IN  /\ clock' = newNow + lag
           /\ limiter' = [limiter EXCEPT
                            !.requestTimes =
                               Append(filterRecent(limiter.requestTimes, newNow),
                                      newNow + lag),
                            !.pc = "idle", !.wakeAt = 0, !.attempt = 0]
           /\ released' = Released(newNow + lag)
  /\ UNCHANGED <<portal, sourceState, permits, run, faults, triggers, sweep, enabled, config, classifier, geocoder, pager,
                 deep, glitches>>

LimiterInit ==
  /\ portal = [s \in SourceIds |-> IF s = 1 THEN ArcGISRows ELSE SocrataRows(FALSE)]
  /\ sourceState = << >>
  /\ permits = {}
  /\ run = [t \in Tasks |-> IdleRun]
  /\ faults = 0
  /\ triggers = 0
  /\ sweep = IdleSweep
  /\ deep = IdleDeep
  /\ glitches = 0
  /\ clock = 0
  /\ \E n \in Rates : limiter = [IdleLimiter EXCEPT !.requestsPerMinute = n]
  /\ released = << >>
  /\ classifier = IdleClassifier
  /\ geocoder = IdleGeocoder
  /\ pager = IdlePager
  /\ enabled = [s \in SourceIds |-> 1]
  /\ config = [s \in SourceIds |-> FullConfig(s)]

LimiterNext == WaitIfNeededCall \/ WaitIfNeededWake

LimiterSpec == LimiterInit /\ [][LimiterNext]_vars

(***************************************************************************)
(* exponentialBackoff (connectors/base) around the page request of a run,  *)
(* here the sweep's.                                                       *)
(***************************************************************************)
\* maxRetries: number = 3
maxRetries == 3

\* baseDelay: number = 1000
baseDelay == 1000

\* The failed page requests of one behaviour that are followed by a retry.
MaxGlitches == 2

\* What makes fn() throw: fetch() rejecting, or fetchArcGIS / fetchSocrata
\* finding !response.ok.
ErrorKinds == {"network", "http_500", "http_429", "http_404"}

\* Math.random() * 500, its ends.
Jitters == {0, 499}

\* const delay = baseDelay * Math.pow(2, attempt); slept with the jitter.
backoffDelay(attempt, jitter) == baseDelay * 2^attempt + jitter

\* Lines 332-341: fn() threw on an attempt that is not the last; whatever
\* the error, the timer of the backoff is set.
FetchRetry(t) ==
  /\ run[t].pc = "fetch"
  /\ run[t].attempt < maxRetries
  /\ glitches < MaxGlitches
  /\ glitches' = glitches + 1
  /\ \E kind \in ErrorKinds, jitter \in Jitters :
       run' = [run EXCEPT
                 ![t].fetchError = kind,
                 ![t].delays = Append(run[t].delays, backoffDelay(run[t].attempt, jitter)),
                 ![t].pc = "backoff"]
  /\ UNCHANGED <<portal, sourceState, permits, faults, triggers, sweep, enabled, config, classifier, geocoder, pager,
                 deep, clock, limiter, released>>

\* Variant of BackoffWake: the next attempt asks for the page after.
BackoffWakeNextPage(t) ==
  /\ run[t].pc = "backoff"
  /\ run' = [run EXCEPT ![t].attempt = run[t].attempt + 1,
                        ![t].offset = run[t].offset + 1,
                        ![t].pc = "fetch"]
  /\ UNCHANGED <<portal, sourceState, permits, faults, triggers, sweep, enabled, config, classifier, geocoder, pager,
                 deep, glitches, clock, limiter, released>>

\* Line 331: the timer fired; attempt++ and fn() is called again, with the
\* same url.
BackoffWake(t) ==
  /\ run[t].pc = "backoff"
  /\ run' = [run EXCEPT ![t].attempt = run[t].attempt + 1, ![t].pc = "fetch"]
  /\ UNCHANGED <<portal, sourceState, permits, faults, triggers, sweep, enabled, config, classifier, geocoder, pager,
                 deep, glitches, clock, limiter, released>>

RetryNext ==
  \/ SweepNext
  \/ FetchRetry("sweep")
  \/ BackoffWake("sweep")

RetrySpec == SweepInit /\ [][RetryNext]_vars

(***************************************************************************)
(* A run of a source whose config lacks the connector's resource field.    *)
(* runIngestion builds the config and the iterator (routes.ts 337-364)     *)
(* without a call of connector.validate; the connector asks the portal for *)
(* the resource "undefined" and the portal answers with an error.          *)
(***************************************************************************)
\* The request for a resource the portal does not have: fn() throws on
\* every attempt, exponentialBackoff sleeps and tries again until the last
\* attempt, whose error leaves the iterator for the catch of runIngestion.
FetchMisconfigured(t) ==
  /\ run[t].pc = "fetch"
  /\ ~NamesResource(run[t].source, config[run[t].source])
  /\ \E jitter \in Jitters :
       run' = [run EXCEPT ![t] =
                 IF run[t].attempt < maxRetries
                 THEN [run[t] EXCEPT
                         !.fetchError = "http_404",
                         !.delays = Append(run[t].delays, backoffDelay(run[t].attempt, jitter)),
                         !.pc = "backoff"]
                 ELSE [run[t] EXCEPT !.pc = "fail_read", !.error = "fetch"]]
  /\ UNCHANGED <<portal, sourceState, permits, faults, triggers, sweep, enabled, config, classifier, geocoder, pager,
                 deep, glitches, clock, limiter, released>>

\* The config column of a source has its resource field or lacks it.
ConfigInit ==
  /\ \E bad \in BOOLEAN : portal = [s \in SourceIds |->
                                      IF s = 1 THEN ArcGISRows ELSE SocrataRows(bad)]
  /\ sourceState = << >>
  /\ permits = {}
  /\ run = [t \in Tasks |-> IdleRun]
  /\ faults = 0
  /\ triggers = 0
  /\ sweep = IdleSweep
  /\ deep = IdleDeep
  /\ glitches = 0
  /\ clock = 0
  /\ limiter = IdleLimiter
  /\ released = << >>
  /\ classifier = IdleClassifier
  /\ geocoder = IdleGeocoder
  /\ pager = IdlePager
  /\ enabled = [s \in SourceIds |-> 1]
  /\ config \in [SourceIds -> {FullConfig(s) : s \in SourceIds}
                                 \cup {[layer_id |-> NULL, dataset_id |-> NULL]}]

ConfigNext ==
  \/ \E s \in SourceIds, mode \in Modes : ManualTrigger(s, mode)
  \/ SoloRunStep("manual")
  \/ FetchMisconfigured("manual")
  \/ BackoffWake("manual")

\* The background task of the request is run to its end.
ConfigSpec ==
  /\ ConfigInit /\ [][ConfigNext]_vars
  /\ WF_vars(SoloRunStep("manual") \/ FetchMisconfigured("manual") \/ BackoffWake("manual"))

(***************************************************************************)
(* classifyAsRoofing (normalization/classifier.ts).  Strings are sequences *)
(* of characters of a three-letter alphabet with one upper-case letter.    *)
(***************************************************************************)
\* The longest string argument.
MaxLen == 2

Strings == UNION {[1..n -> {"r", "o", "R"}] : n \in 0..MaxLen}

\* String.prototype.toLowerCase
toLowerCase(str) == [i \in DOMAIN str |-> IF str[i] = "R" THEN "r" ELSE str[i]]

\* String.prototype.includes
includes(str, sub) ==
  \E i \in 0..(Len(str) - Len(sub)) : SubSeq(str, i + 1, i + Len(sub)) = sub

\* rules.case_sensitive ? x : x.toLowerCase()
Normalized(rules, str) == IF rules.case_sensitive THEN str ELSE toLowerCase(str)

\* Lines 66-75: the loop over allTokens from position i with the matches
\* counted so far; true is returned from inside the loop, after a match.
RECURSIVE ScanTokens(_, _, _, _, _)
ScanTokens(rules, allTokens, normalizedDesc, i, matches) ==
  IF i > Len(allTokens) THEN FALSE
  ELSE IF includes(normalizedDesc, Normalized(rules, allTokens[i]))
       THEN IF matches + 1 >= rules.min_token_matches THEN TRUE
            ELSE ScanTokens(rules, allTokens, normalizedDesc, i + 1, matches + 1)
       ELSE ScanTokens(rules, allTokens, normalizedDesc, i + 1, matches)

\* Lines 35-83.  `if (permitType)` and `if (workDescription)` are false for
\* null and for the empty string.
classifyAsRoofing(rules, permitType, workDescription) ==
  LET normalizedType == Normalized(rules, permitType.chars)
      typeHit ==
        /\ ~permitType.isNull /\ permitType.chars /= << >>
        /\ \/ \E i \in DOMAIN rules.exact_matches :
                normalizedType = Normalized(rules, rules.exact_matches[i])
           \/ \E i \in DOMAIN rules.partial_matches :
                includes(normalizedType, Normalized(rules, rules.partial_matches[i]))
      descHit ==
        /\ ~workDescription.isNull /\ workDescription.chars /= << >>
        /\ ScanTokens(rules,
                      rules.primary \o rules.materials \o rules.actions,
                      Normalized(rules, workDescription.chars), 1, 0)
  IN  typeHit \/ descHit

\* The roofing rules a deployment can be configured with: non-empty
\* strings, min_token_matches positive.
RuleSets ==
  [exact_matches : {<< >>, << <<"R", "o">> >>},
   partial_matches : {<< >>, << <<"R">> >>},
   primary : {<< <<"r">> >>, << <<"r">>, <<"o">> >>},
   materials : {<< >>, << <<"r">> >>},
   actions : {<< >>, << <<"o", "o">> >>},
   min_token_matches : {1, 2},
   case_sensitive : BOOLEAN]

\* A connector's normalize calls classifyAsRoofing(permitType, workDescription).
Classify ==
  /\ classifier.pc = "called"
  /\ classifier' = [classifier EXCEPT
                      !.result = classifyAsRoofing(classifier.rules, classifier.permitType,
                                                   classifier.workDescription),
                      !.pc = "returned"]
  /\ UNCHANGED <<portal, sourceState, permits, run, faults, triggers, sweep, enabled, config, geocoder, pager,
                 deep, glitches, clock, limiter, released>>

ClassifierInit ==
  /\ portal = [s \in SourceIds |-> IF s = 1 THEN ArcGISRows ELSE SocrataRows(FALSE)]
  /\ sourceState = << >>
  /\ permits = {}
  /\ run = [t \in Tasks |-> IdleRun]
  /\ faults = 0
  /\ triggers = 0
  /\ sweep = IdleSweep
  /\ deep = IdleDeep
  /\ glitches = 0
  /\ clock = 0
  /\ limiter = IdleLimiter
  /\ released = << >>
  /\ geocoder = IdleGeocoder
  /\ pager = IdlePager
  /\ enabled = [s \in SourceIds |-> 1]
  /\ config = [s \in SourceIds |-> FullConfig(s)]
  /\ \E rules \in RuleSets, t, d \in {Str(c) : c \in Strings} \cup {NullString} :
       classifier = [IdleClassifier EXCEPT !.pc = "called", !.rules = rules,
                                           !.permitType = t, !.workDescription = d]

ClassifierSpec == ClassifierInit /\ [][Classify]_vars

(***************************************************************************)
(* GeocodingService (storage.ts).  lastRequestTime and geocodeCache are    *)
(* globals of the module, geocode_cache is a table; clock is Date.now().   *)
(* A result is "hit" (coordinates), or the error it carries.               *)
(***************************************************************************)
\* The geocode calls of one behaviour, and the requests they send.
MaxGeocodes == 3

MaxRequests == 3

\* What the upstream service answers to a request: coordinates, an empty
\* list, a status that is not ok, or nothing (fetch rejects).
Answers == {"hit", "none", "http_429", "network"}

\* The time between a call of geocode and the event before it, in ms.
GeoGaps == {0, 1100}

\* The variables the geocoder leaves alone.
notGeocoder ==
  <<portal, sourceState, permits, run, faults, triggers, sweep, deep, glitches,
    limiter, released, enabled, config, classifier, pager>>

\* The timers that have not fired yet, and whether none of them is due
\* before time t: timers fire in the order of their due times.
Timers == {geocoder.call[c].wakeAt :
             c \in {d \in Callers : geocoder.call[d].pc \in {"throttle_wait", "retry_wait"}}}

NoTimerBefore(t) == \A w \in Timers : t <= w

\* Lines 389-405: geocode(address) is called; getCachedGeocode (lines
\* 324-356) finds the address in the Map, or in the table (and copies the
\* row into the Map), and the call returns; else throttle is next.
GeocodeCall(c) ==
  /\ geocoder.call[c].pc = "idle"
  /\ geocoder.calls < MaxGeocodes
  /\ \E a \in Addresses, gap \in GeoGaps :
       /\ NoTimerBefore(clock + gap)
       /\ clock' = clock + gap
       /\ geocoder' =
            [geocoder EXCEPT
               !.calls = geocoder.calls + 1,
               !.call[c] = [IdleCall EXCEPT !.address = a, !.retries = GeocodeRetries,
                                            !.pc = "lookup"]]
  /\ UNCHANGED notGeocoder

GeocodeLookup(c) ==
  /\ geocoder.call[c].pc = "lookup"
  /\ LET a == geocoder.call[c].address
     IN  geocoder' =
           IF geocoder.geocodeCache[a] /= NullStr
           THEN [geocoder EXCEPT !.call[c] = IdleCall]
           ELSE IF geocoder.geocode_cache[a] /= NullStr
           THEN [geocoder EXCEPT !.geocodeCache[a] = geocoder.geocode_cache[a],
                                 !.call[c] = IdleCall]
           ELSE [geocoder EXCEPT !.call[c].pc = "throttle"]
  /\ UNCHANGED <<clock, notGeocoder>>

\* Line 411 is reached: fetch(url) is called at time now.
Requested(g, c, now) ==
  [g EXCEPT !.lastRequestTime = now,
            !.sent = g.sent + 1,
            !.requests = IF Len(g.requests) < 2 THEN Append(g.requests, now)
                         ELSE << g.requests[2], now >>,
            !.call[c].pc = "fetch"]

\* Lines 381-390: throttle() up to its timer, or, without a wait, up to
\* lastRequestTime = Date.now() and on to the request.
Throttle(c) ==
  /\ geocoder.call[c].pc = "throttle"
  /\ geocoder.sent < MaxRequests
  /\ LET timeSinceLastRequest == clock - geocoder.lastRequestTime
     IN  geocoder' =
           IF timeSinceLastRequest < RATE_LIMIT_MS
           THEN [geocoder EXCEPT
                   !.call[c].pc = "throttle_wait",
                   !.call[c].wakeAt = clock + (RATE_LIMIT_MS - timeSinceLastRequest)]
           ELSE Requested(geocoder, c, clock)
  /\ UNCHANGED <<clock, notGeocoder>>

\* Lines 387-390: the timer of throttle() fired.
ThrottleWake(c) ==
  /\ geocoder.call[c].pc = "throttle_wait"
  /\ NoTimerBefore(geocoder.call[c].wakeAt)
  /\ clock' = Max(clock, geocoder.call[c].wakeAt)
  /\ geocoder' = Requested(geocoder, c, clock')
  /\ UNCHANGED notGeocoder

\* setCachedGeocode (lines 358-379): the Map entry and the table row; the
\* row has lat, lon and display_name, no error.
setCachedGeocode(g, a, result) ==
  [g EXCEPT !.geocodeCache[a] = result,
            !.geocode_cache[a] = IF result = "hit" THEN "hit" ELSE "no_coords"]

\* setTimeout(resolve, 3000) after a 429, setTimeout(resolve, 2000) in the
\* catch block.
RetryAt(answer) == clock + (IF answer = "http_429" THEN 3000 ELSE 2000)

\* Lines 431-481: what geocode does with the answer of the request.
AfterResponse(g, c, answer) ==
  IF answer \in {"http_429", "network"} /\ g.call[c].retries > 0
  THEN [g EXCEPT !.call[c].pc = "retry_wait", !.call[c].wakeAt = RetryAt(answer)]
  ELSE [setCachedGeocode(g, g.call[c].address, answer) EXCEPT !.call[c] = IdleCall]

\* The request is answered; before a retry 3000 ms (429) or 2000 ms (catch)
\* are slept.
GeocodeResponse(c) ==
  /\ geocoder.call[c].pc = "fetch"
  /\ \E answer \in Answers :
       geocoder' = AfterResponse(geocoder, c, answer)
  /\ UNCHANGED <<clock, notGeocoder>>

\* Lines 436 and 473: return this.geocode(address, retries - 1).
RetryWake(c) ==
  /\ geocoder.call[c].pc = "retry_wait"
  /\ NoTimerBefore(geocoder.call[c].wakeAt)
  /\ clock' = Max(clock, geocoder.call[c].wakeAt)
  /\ geocoder' = [geocoder EXCEPT !.call[c].retries = geocoder.call[c].retries - 1,
                                  !.call[c].pc = "lookup"]
  /\ UNCHANGED notGeocoder

GeocodeStep(c) ==
  \/ GeocodeCall(c) \/ GeocodeLookup(c) \/ Throttle(c) \/ ThrottleWake(c)
  \/ GeocodeResponse(c) \/ RetryWake(c)

\* The process has been up for a while when the first call is made.
GeocoderInit ==
  /\ portal = [s \in SourceIds |-> IF s = 1 THEN ArcGISRows ELSE SocrataRows(FALSE)]
  /\ sourceState = << >>
  /\ permits = {}
  /\ run = [t \in Tasks |-> IdleRun]
  /\ faults = 0
  /\ triggers = 0
  /\ sweep = IdleSweep
  /\ deep = IdleDeep
  /\ glitches = 0
  /\ clock = RATE_LIMIT_MS
  /\ limiter = IdleLimiter
  /\ released = << >>
  /\ classifier = IdleClassifier
  /\ geocoder = IdleGeocoder
  /\ pager = IdlePager
  /\ enabled = [s \in SourceIds |-> 1]
  /\ config = [s \in SourceIds |-> FullConfig(s)]

GeocoderSpec == GeocoderInit /\ [][\E c \in Callers : GeocodeStep(c)]_vars

(***************************************************************************)
(* The sweep with time passing while a run waits for the portal or the     *)
(* database.                                                               *)
(***************************************************************************)
\* The minutes one await of a run can take.
TickMinutes == 10

\* The minutes of one behaviour.
MaxElapsedMinutes == 40

\* Date.now() advances while task t's runIngestion is suspended in an await.
Elapse(t) ==
  /\ run[t].pc \notin {"idle", "done", "threw"}
  /\ clock + TickMinutes * Minute <= MaxElapsedMinutes * Minute
  /\ clock' = clock + TickMinutes * Minute
  /\ UNCHANGED <<portal, sourceState, permits, run, faults, triggers, sweep, enabled, config,
                 classifier, geocoder, pager, deep, glitches, limiter, released>>

BudgetNext ==
  \/ SweepNext
  \/ Elapse("sweep")

BudgetSpec == SweepInit /\ [][BudgetNext]_vars

(***************************************************************************)
(* The system with an operator who disables sources.                       *)
(***************************************************************************)
\* PATCH /api/sources/:id with { enabled: 0 }: storage.updateSource sets the
\* column.
updateSource(s) ==
  /\ enabled[s] /= 0
  /\ enabled' = [enabled EXCEPT ![s] = 0]
  /\ UNCHANGED <<portal, sourceState, permits, run, faults, triggers, sweep, config,
                 classifier, geocoder, pager, deep, glitches, clock, limiter, released>>

\* The manual trigger is used on the dataset source, as in LiveNext.
DisableNext ==
  \/ LiveNext
  \/ \E s \in SourceIds : updateSource(s)

DisableSpec == Init /\ [][DisableNext]_vars

(***************************************************************************)
(* The sweep over portals whose records are edited upstream.               *)
(***************************************************************************)
\* The portal of source s corrects the address of its first record: the
\* record keeps its id and its place in the portal's order.
UpstreamEdit(s) ==
  /\ portal[s][1].addr /= "m"
  /\ portal' = [portal EXCEPT ![s][1].addr = "m"]
  /\ UNCHANGED <<sourceState, permits, run, faults, triggers, sweep, enabled, config,
                 classifier, geocoder, pager, deep, glitches, clock, limiter, released>>

EditNext ==
  \/ SweepNext
  \/ \E s \in SourceIds : UpstreamEdit(s)

EditSpec == SweepInit /\ [][EditNext]_vars

(***************************************************************************)
(* Manual runs of the feature-service source, started from the state rows  *)
(* and stored permits that earlier runs (or an operator's SQL, for the     *)
(* timestamp cursor) have left.                                            *)
(***************************************************************************)
\* The permits of the first k records of the feature service.
StoredPrefix(k) ==
  {StoredPermit(i, permitData(normalize(1, ArcGISRows[i], i))) : i \in 1..k}

CursorInit ==
  /\ portal = [s \in SourceIds |-> IF s = 1 THEN ArcGISRows ELSE SocrataRows(FALSE)]
  /\ \E c \in {NULL, 1, 2}, ts \in {NULL, 1} :
       sourceState = << [NewStateRow(1, 1) EXCEPT !.last_max_objectid = c,
                                                  !.last_max_timestamp = ts,
                                                  !.status_message = "complete"] >>
  /\ \E k \in 0..2 : permits = StoredPrefix(k)
  /\ run = [t \in Tasks |-> IdleRun]
  /\ faults = 0
  /\ triggers = 0
  /\ sweep = IdleSweep
  /\ deep = IdleDeep
  /\ glitches = 0
  /\ clock = 0
  /\ limiter = IdleLimiter
  /\ released = << >>
  /\ classifier = IdleClassifier
  /\ geocoder = IdleGeocoder
  /\ pager = IdlePager
  /\ enabled = [s \in SourceIds |-> 1]
  /\ config = [s \in SourceIds |-> FullConfig(s)]

CursorNext ==
  \/ \E mode \in Modes : ManualTrigger(1, mode)
  \/ SoloRunStep("manual")

CursorSpec == CursorInit /\ [][CursorNext]_vars

(***************************************************************************)
(* The page loop of a connector's generator (the same loop in backfill and *)
(* incremental of both connectors), with the records of a page counted     *)
(* rather than held: corpus is the number of records that match the        *)
(* request's where clause, cap the most records the portal returns in one  *)
(* page.                                                                   *)
(***************************************************************************)
\* maxRows as runIngestion, the sweep's source or a deep run pass it.
PagerMaxRows == {1, 999, 1000, 1001, 2500}

PagerCorpora == {0, 1, 999, 1000, 1001, 2000, 2600}

PagerCaps == {500, 1000, 2000}

notPager ==
  <<portal, sourceState, permits, run, faults, triggers, sweep, deep, glitches, clock,
    limiter, released, enabled, config, classifier, geocoder>>

\* The rows of the page the portal returns for (offset, batchLimit).
PageRows(g, batchLimit) ==
  Min(Min(batchLimit, g.cap), Max(0, g.corpus - g.offset))

\* `while (fetched < maxRows)`, waitIfNeeded, batchLimit, the request.
PagerRequest ==
  /\ pager.pc = "loop"
  /\ pager' =
       IF pager.fetched < pager.maxRows
       THEN LET batchLimit == Min(limit, pager.maxRows - pager.fetched)
            IN  [pager EXCEPT !.batchLimit = batchLimit,
                              !.rows = PageRows(pager, batchLimit),
                              !.pages = pager.pages + 1,
                              !.pc = "page"]
       ELSE [pager EXCEPT !.pc = "done"]
  /\ UNCHANGED notPager

\* Variant of PagerConsume: a short page does not end the loop.
PagerConsumeNoShortBreak ==
  /\ pager.pc = "page"
  /\ pager' =
       IF pager.rows = 0 THEN [pager EXCEPT !.pc = "done"]
       ELSE [pager EXCEPT !.yielded = pager.yielded + pager.rows,
                          !.fetched = pager.fetched + pager.rows,
                          !.offset = pager.offset + pager.batchLimit,
                          !.pc = "loop"]
  /\ UNCHANGED notPager

\* The page arrived: break on an empty page; yield its rows; fetched +=
\* rows.length; offset += batchLimit; break on a short page.
PagerConsume ==
  /\ pager.pc = "page"
  /\ pager' =
       IF pager.rows = 0 THEN [pager EXCEPT !.pc = "done"]
       ELSE [pager EXCEPT !.yielded = pager.yielded + pager.rows,
                          !.fetched = pager.fetched + pager.rows,
                          !.offset = pager.offset + pager.batchLimit,
                          !.pc = IF pager.rows < pager.batchLimit
                                 THEN "done" ELSE "loop"]
  /\ UNCHANGED notPager

PagerInit ==
  /\ portal = [s \in SourceIds |-> IF s = 1 THEN ArcGISRows ELSE SocrataRows(FALSE)]
  /\ sourceState = << >>
  /\ permits = {}
  /\ run = [t \in Tasks |-> IdleRun]
  /\ faults = 0
  /\ triggers = 0
  /\ sweep = IdleSweep
  /\ deep = IdleDeep
  /\ glitches = 0
  /\ clock = 0
  /\ limiter = IdleLimiter
  /\ released = << >>
  /\ classifier = IdleClassifier
  /\ geocoder = IdleGeocoder
  /\ enabled = [s \in SourceIds |-> 1]
  /\ config = [s \in SourceIds |-> FullConfig(s)]
  /\ \E m \in PagerMaxRows, n \in PagerCorpora, c \in PagerCaps :
       pager = [IdlePager EXCEPT !.pc = "loop", !.maxRows = m, !.corpus = n, !.cap = c]

PagerNext == PagerRequest \/ PagerConsume

\* The consumer takes every record it is handed.
PagerSpec == PagerInit /\ [][PagerNext]_vars /\ WF_vars(PagerNext)

(***************************************************************************)
(* The sweep with a database that can reject the write that marks a run as *)
(* running.                                                                *)
(***************************************************************************)
\* Lines 353-358: upsertSourceState raises; the call is before the try
\* block, so the error leaves runIngestion as it is.
MarkWriteFault(t) ==
  /\ run[t].pc = "mark_write"
  /\ faults < MaxFaults
  /\ faults' = faults + 1
  /\ run' = [run EXCEPT ![t] = [IdleRun EXCEPT !.pc = "threw"]]
  /\ UNCHANGED <<others, portal, sourceState, permits, triggers, sweep>>

StartFaultNext ==
  \/ SweepNext
  \/ MarkWriteFault("sweep")

StartFaultSpec == SweepInit /\ [][StartFaultNext]_vars

(***************************************************************************)
(* Properties.                                                             *)
(***************************************************************************)
IsArcGIS(s) == s \in SourceIds /\ sources[s].platform = "arcgis"

\* Task t takes the step that completes its run of source s cleanly (the
\* final write).
CompletesRun(t, s) ==
  run[t].pc = "final_write" /\ run[t].source = s /\ run'[t].pc = "done"

\* C1: for a feature-service source, the state row's last_max_objectid
\* read after a run that completed successfully is >= the value the run
\* found in the state row when it started (an absent value is the lowest).
C1_ObjectIdCursorNonDecreasing ==
  [][\A t \in Tasks, s \in SourceIds :
       (CompletesRun(t, s) /\ IsArcGIS(s))
         => getSourceState(s)'.last_max_objectid
              >= run[t].state.last_max_objectid]_vars

\* A backfill of the feature service that started at cursor 2, fetched the
\* one remaining record and completed with the cursor at 3.
C1_Witness ==
  /\ getSourceState(1).status_message = "complete"
  /\ getSourceState(1).rows_fetched = 1
  /\ getSourceState(1).last_max_objectid = 3

\* C2: the state row's last_issue_date written at clean completion is >=
\* the last_issue_date stored before the run.
C2_IssueDateCursorNonDecreasing ==
  [][\A t \in Tasks, s \in SourceIds :
       CompletesRun(t, s)
         => getSourceState(s)'.last_issue_date
              >= run[t].state.last_issue_date]_vars

\* C3: in every reachable state there is at most one source_state row per
\* source id.
C3_AtMostOneStateRowPerSource ==
  \A i, j \in DOMAIN sourceState :
    sourceState[i].source_id = sourceState[j].source_id => i = j

\* Task t takes the step that ends the write half of upsertPermit.
PermitWriteStep(t) == run[t].pc = "permit_write" /\ run'[t] /= run[t]

\* ... and the upsert returned (rowsUpserted++ follows only a return).
PermitWriteReturned(t) ==
  PermitWriteStep(t) /\ run'[t].rowsUpserted = run[t].rowsUpserted + 1

\* The stored permit of that fingerprint.
PermitOf(rows, fp) == CHOOSE p \in rows : p.fingerprint = fp

C5_UpsertIdempotent ==
  [][\A t \in Tasks, s \in SourceIds :
       LET n == run[t].normalized
       IN  (PermitWriteStep(t) /\ n.source_id = s /\
              \E p \in permits : p = StoredPermit(p.id, permitData(n)))
             => /\ permits' = permits
                /\ getPermitStatsTotal' = getPermitStatsTotal
                /\ getSourcePermitCount(s)' = getSourcePermitCount(s)]_vars

\* A second backfill of the dataset upserted the row the first one stored:
\* the source still counts one permit.
C5_Witness ==
  \E t \in Tasks :
    /\ run[t].source = 2 /\ run[t].mode = "backfill"
    /\ run[t].pc = "final_read" /\ run[t].rowsUpserted = 1
    /\ getSourceState(2).rows_upserted = 1
    /\ getSourcePermitCount(2) = 1
    /\ getPermitStatsTotal = 1

\* C6 as stated: on a fingerprint match only the non-null fields of the
\* new record are written; a null field keeps its stored value.
C6_NullFieldKeepsStoredValue ==
  [][\A t \in Tasks :
       LET n == run[t].normalized
       IN  (PermitWriteReturned(t) /\ run[t].existing /= NULL)
             => LET old == PermitOf(permits, n.fingerprint)
                    new == PermitOf(permits', n.fingerprint)
                IN  new.owner_name = IF n.owner_name = NullStr
                                     THEN old.owner_name ELSE n.owner_name]_vars

\* C6 amended: on a fingerprint match every column of the new record is
\* written, a null one included; only the id is kept.
C6_EveryFieldOverwritten ==
  [][\A t \in Tasks :
       LET n == run[t].normalized
       IN  (PermitWriteReturned(t) /\ run[t].existing /= NULL)
             => PermitOf(permits', n.fingerprint)
                  = StoredPermit(run[t].existing, permitData(n))]_vars

\* The feature service stored the permit of fingerprint <<a, 2>> with an
\* owner (its run upserted both its records); the dataset's record of the
\* same fingerprint, with a null owner, was then merged into it.
C6_Witness ==
  /\ \E p \in permits :
       p.fingerprint = << "a", 2 >> /\ p.source_id = 2 /\ p.owner_name = NullStr
  /\ getSourceState(1).status_message = "complete"
  /\ getSourceState(1).rows_upserted = 2

\* The is_running flag of source s as getSourceState shows it.
IsRunning(s) == getSourceState(s).is_running

\* C7: is_running goes false -> true only when a run starts (the
\* mark-running write), and true -> false only with a success or a failure
\* status.
C7_IsRunningTransitions ==
  [][\A s \in SourceIds :
       /\ (IsRunning(s) = 0 /\ IsRunning(s)' = 1)
            => \E t \in Tasks : run[t].pc = "mark_write" /\ run'[t].pc /= "mark_write"
       /\ (IsRunning(s) = 1 /\ IsRunning(s)' = 0)
            => getSourceState(s)'.status_message \in {"complete", "failed"}]_vars

\* Task t takes the step that ends its run of source s: the final write of
\* the clean path or of the exception path.
EndsRun(t, s) ==
  /\ run[t].pc \in {"final_write", "fail_write"}
  /\ run[t].source = s
  /\ Finished(t)'

\* C8: every run that marked its source as running ends, and the write it
\* ends with (success or failure) leaves the source's is_running at false;
\* when the sweep has finished a pass and no other run is under way, every
\* source's is_running is false.
C8_RunLeavesNotRunning ==
  /\ \A t \in Tasks : ~Finished(t) ~> Finished(t)
  /\ [][\A t \in Tasks, s \in SourceIds : EndsRun(t, s) => IsRunning(s)' = 0]_vars
  /\ []((sweep.pc = "sleep" /\ \A t \in Tasks : Finished(t))
          => \A s \in SourceIds : IsRunning(s) = 0)

\* The sweep finished a pass in which a run of the feature service failed
\* and a later one succeeded; both sources show is_running = false.
C8_Witness ==
  /\ sweep.pc = "sleep"
  /\ faults = 1
  /\ \A t \in Tasks : Finished(t)
  /\ \A s \in SourceIds :
       getSourceState(s).status_message = "complete" /\ IsRunning(s) = 0

\* C9: a failed upsertPermit increments errors, leaves rowsUpserted, and
\* the run goes on where it would after a successful upsert; no run is on
\* its failure path because of an upsert.
C9_UpsertFailureDoesNotEndRun ==
  /\ [](\A t \in Tasks :
          run[t].pc \in {"fail_read", "fail_write"}
            => run[t].error \in {"fetch", "normalize"})
  /\ [][\A t \in Tasks :
          (PermitWriteStep(t) /\ ~PermitWriteReturned(t))
            => /\ run'[t].errors = run[t].errors + 1
               /\ run'[t].rowsUpserted = run[t].rowsUpserted
               /\ run'[t].pc = AfterUpsert(run[t]).pc
               /\ run'[t].normalized = AfterUpsert(run[t]).normalized]_vars

\* A run whose first upsert failed went on to its second record and ended
\* with the success state.
C9_Witness ==
  /\ getSourceState(1).status_message = "complete"
  /\ getSourceState(1).rows_fetched = 2
  /\ getSourceState(1).rows_upserted = 1
  /\ getSourceState(1).errors = 1
  /\ getSourceState(1).last_max_objectid = 2

\* C10: a row that normalize() raises on is counted in errors and the run
\* goes on: no run is on its failure path because of a normalization error.
C10_NormalizeFailureDoesNotEndRun ==
  \A t \in Tasks :
    ~(run[t].pc \in {"fail_read", "fail_write"} /\ run[t].error = "normalize")

\* The run of task t has opened its connector iterator (the starting cursor
\* is computed) and has not ended.
IteratorOpen(t) ==
  run[t].pc \in {"fetch", "prog_read", "prog_write", "permit_read",
                 "permit_write", "final_read", "final_write"}

\* Some permit carries the fingerprint of this portal row.
RowStored(raw) ==
  \E p \in permits : p.fingerprint = generateFingerprint(raw.addr, raw.issue_date)

\* The rows the connector's query of this backfill run selects, whatever
\* the paging.
RowsInRange(r) ==
  LET rows == portal[r.source]
  IN  IF sources[r.source].platform = "arcgis"
      THEN ArcGISQuery(rows, r.startingObjectId, 0, Len(rows))
      ELSE SocrataQuery(rows, NULL, 0, Len(rows))

\* C11: a record that is not stored (its upsert failed and it was skipped)
\* is within the range the next backfill run of its source requests, for
\* the dataset and for the feature service.
C11_FailedRecordSeenAgain ==
  \A t \in Tasks :
    (IteratorOpen(t) /\ run[t].mode = "backfill")
      => \A i \in DOMAIN portal[run[t].source] :
           LET raw == portal[run[t].source][i]
           IN  ~RowStored(raw)
                 => \E j \in DOMAIN RowsInRange(run[t]) : RowsInRange(run[t])[j] = raw

\* The sweep takes the step that applies the exhaustion rule to a batch.
SweepDecides ==
  sweep.pc = "after_count" /\ sweep' /= sweep /\ faults' = faults

\* The sweep leaves the source it is on.
SweepMovesOn == sweep'.pc = "sleep" \/ sweep'.idx = sweep.idx + 1

\* C12: after a successful batch the sweep leaves the source if and only if
\* rows_fetched < max_rows or the batch is the third consecutive zero-save
\* batch (no permit added and rows_fetched >= max_rows); otherwise it stays
\* on the source with the counter of consecutive zero-save batches, which a
\* batch that adds a permit resets to 0.
C12_ExhaustionRule ==
  [][SweepDecides =>
       LET s == SweepSource
           maxRows == sources[s].max_rows_per_run
           added == getSourcePermitCount(s) - sweep.beforeCount
           zeroSave == added = 0 /\ sweep.rowsFetched >= maxRows
           zeros == IF zeroSave THEN sweep.consecutiveZeroSaves + 1 ELSE 0
       IN  /\ SweepMovesOn <=> (sweep.rowsFetched < maxRows \/ zeros >= 3)
           /\ ~SweepMovesOn =>
                /\ sweep'.idx = sweep.idx /\ sweep'.pc = "before_count"
                /\ sweep'.consecutiveZeroSaves = zeros
           /\ added >= 1 => sweep'.consecutiveZeroSaves = 0]_vars

\* The dataset returns a full batch every time, so the sweep left it after
\* three consecutive zero-save batches and is on the feature service.
C12_Witness ==
  /\ portal[2] = SocrataRowsFull
  /\ faults = 0
  /\ sweep.idx = 2
  /\ sweep.pc = "before_count"
  /\ getSourcePermitCount(1) = 0

\* The sweep takes its step after a batch whose runIngestion threw.
SweepSeesFailure ==
  sweep.pc = "running" /\ run["sweep"].pc = "threw" /\ sweep' /= sweep

\* C13: a failed batch leaves the sweep on the same source, with the same
\* zero-save counter, about to run a batch of that source again; the sweep
\* leaves a source only in the decision step that follows a batch that
\* returned; and the sweep never stops calling runIngestion.
C13_FailedBatchRetriesSameSource ==
  /\ [][SweepSeesFailure =>
          /\ sweep'.idx = sweep.idx
          /\ sweep'.enabledSources = sweep.enabledSources
          /\ sweep'.consecutiveZeroSaves = sweep.consecutiveZeroSaves
          /\ sweep'.pc = "before_count"]_vars
  /\ [][(sweep.pc /= "get_sources" /\ sweep'.idx /= sweep.idx) =>
          (SweepDecides /\ run["sweep"].pc = "done")]_vars
  /\ []<>(sweep.pc = "call")

\* A batch of the current source failed and the sweep is about to run the
\* next batch of the same source.
C13_Witness ==
  /\ sweep.pc = "call"
  /\ sweep.idx >= 1
  /\ run["sweep"].pc = "threw"
  /\ getSourceState(SweepSource).status_message = "failed"

\* The sources whose per-source loop the sweep has begun in this pass, the
\* current one included.
VisitedInPass == {sweep.enabledSources[i] : i \in 1..sweep.idx}

\* C14: while the sweep is on a source, the loop of every enabled source
\* that was created earlier has already been run in this pass.
C14_SweepInCreationOrder ==
  (sweep.idx >= 1 /\ sweep.pc \in {"before_count", "call", "running", "after_count"})
    => \A s \in SourceIds :
         (enabled[s] /= 0 /\
          sources[s].created_at < sources[SweepSource].created_at)
           => s \in VisitedInPass

\* ceil(a / b) for b > 0.
CeilDiv(a, b) == (a + b - 1) \div b

\* runDeepIngestion takes the step that follows a batch that returned.
DeepDecides == deep.pc = "running" /\ run["manual"].pc = "done" /\ deep' /= deep

\* C15: runDeepIngestion ends; while every run succeeds it has made at most
\* ceil(total / max_rows) + 1 calls of runIngestion; and it leaves its loop
\* at the first batch that adds fewer permits than max_rows, and at no
\* other batch.
C15_DeepIngestionTerminates ==
  /\ ~DeepFinished ~> DeepFinished
  /\ []((deep.source /= NULL /\ faults = 0)
          => deep.runCount <=
               CeilDiv(Len(portal[deep.source]), sources[deep.source].max_rows_per_run) + 1)
  /\ [][DeepDecides =>
          LET added == getSourcePermitCount(deep.source) - deep.beforeCount
          IN  (deep'.pc = "status_read")
                <=> added < sources[deep.source].max_rows_per_run]_vars

\* Deep ingestion of a feature service with four records ended after three
\* batches (2, 2 and 0 permits added): ceil(4 / 2) + 1.
C15_Witness ==
  /\ deep.pc = "done"
  /\ deep.source = 1
  /\ Len(portal[1]) = 4
  /\ deep.runCount = 3
  /\ deep.totalPermitsUpserted = 4
  /\ faults = 0

\* The sweep's run is a backfill of the feature service past its Open step,
\* and nothing has failed so far.
FeatureBackfill ==
  /\ faults = 0
  /\ run["sweep"].source /= NULL
  /\ IsArcGIS(run["sweep"].source)
  /\ run["sweep"].mode = "backfill"

\* The max_rows records of the corpus that follow the record at which run r
\* started (the records of a portal are in OBJECTID order, from 1).
NextRange(r) ==
  SubSeq(portal[r.source], r.startingObjectId + 1,
         Min(Len(portal[r.source]),
             r.startingObjectId + sources[r.source].max_rows_per_run))

\* C16: successive successful backfills of a feature service take
\* consecutive, disjoint, ascending OBJECTID ranges: a run starts at the
\* OBJECTID where the run before it ended, the page it is given is the next
\* max_rows records of the corpus (fewer when fewer are left, none when none
\* are), and when it completes it has fetched and stored every one of them
\* once and the cursor is the last of them.
C16_ConsecutiveRanges ==
  /\ []((FeatureBackfill /\ run["sweep"].pc = "fetch")
          => /\ run["sweep"].startingObjectId
                  = OrElse(getSourceState(run["sweep"].source).last_max_objectid, 0)
             /\ FetchedPage(run["sweep"]) = NextRange(run["sweep"]))
  /\ [][\A s \in SourceIds :
          (FeatureBackfill /\ CompletesRun("sweep", s))
            => LET r == run["sweep"]
                   next == NextRange(r)
               IN  /\ r.errors = 0
                   /\ r.rowsFetched = Len(next)
                   /\ r.rowsUpserted = Len(next)
                   /\ OrElse(getSourceState(s).last_max_objectid, 0)'
                        = r.startingObjectId + Len(next)
                   /\ \A i \in DOMAIN next :
                        \E p \in permits' :
                          p.fingerprint = generateFingerprint(next[i].addr, next[i].issue_date)]_vars

\* The fourth backfill of a feature service with five records under
\* max_rows_per_run = 2 has ended: the runs took 2, 2, 1 and now 0 records.
C16_Witness ==
  /\ faults = 0
  /\ portal[1] = ArcGISRowsLong
  /\ sweep.idx >= 1 /\ SweepSource = 1
  /\ run["sweep"].pc = "done"
  /\ getSourceState(1).status_message = "complete"
  /\ getSourceState(1).last_max_objectid = 5
  /\ getSourceState(1).rows_fetched = 0
  /\ getSourcePermitCount(1) + getSourcePermitCount(2) >= 5

\* The sweep decides after a successful backfill of the feature service with
\* five records (max_rows_per_run = 2, the proportions of 2500 and 1000)
\* that left the cursor at lastId and fetched n records.  While nothing has
\* failed the runs fetch 2, 2, 1 and 0 records and leave the cursor at 2, 4,
\* 5 and 5: the first, second, third and fourth invocation.
SweepDecidesAfter(lastId, n) ==
  /\ SweepDecides
  /\ faults = 0
  /\ portal[1] = ArcGISRowsLong
  /\ SweepSource = 1
  /\ getSourceState(1).last_max_objectid = lastId
  /\ sweep.rowsFetched = n

\* C17 as stated: the sweep stays on the source after the third invocation
\* (the one that fetched the last, short range), and leaves it after a
\* fourth one that fetched nothing.
C17_ExhaustedOnFourth ==
  /\ [][SweepDecidesAfter(5, 1) => ~SweepMovesOn]_vars
  /\ [][SweepDecidesAfter(5, 0) => SweepMovesOn]_vars

\* C17, amended: the sweep stays on the source after the first and the
\* second invocation, which fetched max_rows records each, and leaves it
\* after the third, which fetched fewer than max_rows.
C17_ExhaustedOnThird ==
  /\ [][SweepDecidesAfter(2, 2) => ~SweepMovesOn]_vars
  /\ [][SweepDecidesAfter(4, 2) => ~SweepMovesOn]_vars
  /\ [][SweepDecidesAfter(5, 1) => SweepMovesOn]_vars

\* The pass ended right after the third invocation of the feature service:
\* its state row shows the short range, and every record is stored.
C17_Witness ==
  /\ faults = 0
  /\ portal[1] = ArcGISRowsLong
  /\ sweep.pc = "sleep"
  /\ getSourceState(1).last_max_objectid = 5
  /\ getSourceState(1).rows_fetched = 1
  /\ \A i \in DOMAIN portal[1] : RowStored(portal[1][i])

\* C18: of the calls a limiter has released, any requestsPerMinute + 1 in a
\* row span 60 seconds or more, so that no 60-second window [t, t + 60000)
\* holds more than requestsPerMinute releases; the limiter's own list never
\* holds more than requestsPerMinute timestamps.
C18_AtMostNPerMinute ==
  /\ Len(limiter.requestTimes) <= limiter.requestsPerMinute
  /\ Len(released) = limiter.requestsPerMinute + 1
       => released[Len(released)] - released[1] >= Minute

\* A call found the window full, waited for the timer and was released 60
\* seconds and the buffer after the oldest of the calls before it.
C18_Witness ==
  /\ limiter.pc = "idle"
  /\ limiter.requestsPerMinute = 2
  /\ Len(released) = 3
  /\ released[3] - released[1] = Minute + Buffer
  /\ released[2] - released[1] < Buffer

\* The failures after which a retry is in order: network errors, 5xx, 429.
Transient == {"network", "http_500", "http_429"}

\* C19: the backoff wrapper sets its timer and tries again only after a
\* transient failure; after a 4xx other than 429 there is no wait and no
\* second attempt, the error is raised at once.
C19_OnlyTransientRetried ==
  [][\A t \in Tasks :
       (run[t].pc = "fetch" /\ run'[t].pc = "backoff")
         => run'[t].fetchError \in Transient]_vars

\* A run's page request was retried and the run completes cleanly.
CompletesAfterRetry(t, s) ==
  /\ CompletesRun(t, s)
  /\ faults = 0
  /\ run[t].delays /= << >>

\* The page a fresh request of run r is answered with.
WithoutFailure(r) == FetchedPage([r EXCEPT !.offset = 0, !.fetched = 0, !.attempt = 0])

\* C20: a run whose page request failed and then succeeded on a retry
\* completes with errors = 0, has fetched and stored exactly the records the
\* portal returns to the request without the failure, and has slept a
\* backoff delay of base_delay or more for each failed attempt.
C20_RetryThenSuccess ==
  [][\A t \in Tasks, s \in SourceIds :
       CompletesAfterRetry(t, s)
         => LET r == run[t]
                rows == WithoutFailure(r)
            IN  /\ r.errors = 0
                /\ r.rowsFetched = Len(rows)
                /\ r.rowsUpserted = Len(rows)
                /\ \A i \in DOMAIN rows :
                     \E p \in permits' :
                       p.fingerprint = generateFingerprint(rows[i].addr, rows[i].issue_date)
                /\ getSourceState(s)'.status_message = "complete"
                /\ getSourceState(s)'.errors = 0
                /\ \A i \in DOMAIN r.delays : r.delays[i] >= baseDelay]_vars

\* The feature service answered the first page request of a backfill with
\* 429; after a delay of 1000 ms the retry succeeded, both records of the
\* page are stored without error and the run is at its final write.
C20_Witness ==
  /\ faults = 0
  /\ run["sweep"].pc = "final_write"
  /\ run["sweep"].source = 1
  /\ run["sweep"].fetchError = "http_429"
  /\ run["sweep"].delays = << baseDelay >>
  /\ run["sweep"].rowsFetched = 2
  /\ run["sweep"].rowsUpserted = 2
  /\ run["sweep"].errors = 0
  /\ \A i \in 1..2 : RowStored(portal[1][i])

\* A run of a source whose config lacks the connector's resource field ends
\* with the failure on the source's state row.
ConfigErrorReported ==
  \A t \in Tasks, s \in SourceIds :
    (run[t].pc = "fetch" /\ run[t].source = s /\ ~NamesResource(s, config[s]))
      ~> (Finished(t) /\ getSourceState(s).status_message = "failed"
                      /\ getSourceState(s).is_running = 0)

\* C21: a run of a source whose config lacks the connector's resource field
\* fails without a retry: the step it takes at its page request leads to
\* the catch block, with no backoff delay slept; and the run ends with the
\* failure on the source's state row.
C21_ConfigErrorIsFatal ==
  /\ [][\A t \in Tasks, s \in SourceIds :
          (run[t].pc = "fetch" /\ run[t].source = s
             /\ ~NamesResource(s, config[s]) /\ run'[t] /= run[t])
            => (run'[t].pc = "fail_read" /\ run'[t].delays = << >>)]_vars
  /\ ConfigErrorReported

\* The elements of a sequence.
Range(seq) == {seq[i] : i \in DOMAIN seq}

\* The classifier as the rules state it, null read as the empty string and
\* every comparison case-folded per config: an exact match equals the permit
\* type, or a partial match occurs in it, or at least min_token_matches
\* distinct tokens of primary, materials and actions occur in the work
\* description.
RoofingByRule(rules, permitType, workDescription) ==
  LET type == Normalized(rules, permitType.chars)
      desc == Normalized(rules, workDescription.chars)
      tokens == Range(rules.primary) \cup Range(rules.materials) \cup Range(rules.actions)
  IN  \/ \E m \in Range(rules.exact_matches) : type = Normalized(rules, m)
      \/ \E m \in Range(rules.partial_matches) : includes(type, Normalized(rules, m))
      \/ Cardinality({tok \in tokens : includes(desc, Normalized(rules, tok))})
           >= rules.min_token_matches

\* C22: classifyAsRoofing returns, for every rule set and every pair of
\* arguments, null included, exactly what the rule says.
C22_ClassifierMatchesRule ==
  classifier.pc = "returned"
    => classifier.result = RoofingByRule(classifier.rules, classifier.permitType,
                                         classifier.workDescription)

\* C23: the Map never holds the result of a request that was answered
\* with 429 or not at all, and a row is written to the table only together
\* with a Map entry that is a successful result or a "no result" answer.
C23_TransientNotCached ==
  /\ [](\A a \in Addresses : geocoder.geocodeCache[a] \notin {"http_429", "network"})
  /\ [][\A a \in Addresses :
          geocoder'.geocode_cache[a] /= geocoder.geocode_cache[a]
            => geocoder'.geocodeCache[a] \in {"hit", "none"}]_vars

\* C24: any two requests to the upstream service are issued at least 1.1
\* seconds apart, whoever issues them.
C24_RequestsSpaced ==
  Len(geocoder.requests) = 2
    => geocoder.requests[2] - geocoder.requests[1] >= RATE_LIMIT_MS


\* C25: a run whose elapsed time exceeds its source's max_runtime_minutes
\* consumes no further record of the connector.
C25_RuntimeBudgetHonored ==
  [][\A t \in Tasks :
       (/\ run[t].source /= NULL
        /\ clock - run[t].startTime > sources[run[t].source].max_runtime_minutes * Minute)
       => run'[t].rowsFetched <= run[t].rowsFetched]_vars

\* Task t's step is the call of runIngestion for source s.
StartsRun(t, s) ==
  run[t].pc /= "mark_read" /\ run'[t].pc = "mark_read" /\ run'[t].source = s

\* C26: once a source's enabled flag is false, neither the sweep nor the
\* manual trigger starts a run of it, and the permits stored for it remain.
C26_DisabledSourceNotRun ==
  [][\A s \in SourceIds :
       enabled[s] = 0 =>
         /\ \A t \in Tasks : ~StartsRun(t, s)
         /\ \A p \in permits :
              p.source_id = s => \E q \in permits' : q.id = p.id /\ q.source_id = s]_vars


\* C27: no two stored permits of the same source have the same
\* source_record_id.
C27_RecordIdUniquePerSource ==
  \A p, q \in permits :
    (p.source_id = q.source_id /\ p.source_record_id = q.source_record_id) => p = q


\* No runIngestion is under way.
Quiet == \A t \in Tasks : Finished(t)

\* The records a first run of source s consumes when it runs alone.
AloneRecords(s) ==
  IF sources[s].platform = "arcgis"
  THEN ArcGISQuery(portal[s], 0, 0, maxRowsOf(s))
  ELSE SocrataQuery(portal[s], NULL, 0, maxRowsOf(s))

\* The cursors a run of source s writes when it runs alone and nothing
\* fails: the largest OBJECTID (feature service) and the latest issue date
\* of the records it consumed.
AloneMaxObjectId(s) ==
  LET ids == {AloneRecords(s)[i].id : i \in DOMAIN AloneRecords(s)}
  IN  CHOOSE m \in ids : \A n \in ids : m >= n

AloneIssueDate(s) ==
  LET dates == {AloneRecords(s)[i].issue_date : i \in DOMAIN AloneRecords(s)}
  IN  CHOOSE m \in dates : \A n \in dates : m >= n

\* C28: runs of one source that overlap leave a consistent end state: no
\* two permits with one fingerprint; once all runs have finished the state
\* row shows is_running = false; and, when nothing failed, the cursor its
\* connector resumes from (last_max_objectid of a feature service,
\* last_issue_date of a dataset) is not lower than a run alone writes.
C28_OverlappingRunsConsistent ==
  /\ \A p, q \in permits : p.fingerprint = q.fingerprint => p = q
  /\ Quiet => \A s \in SourceIds : getSourceState(s).is_running \in {0, NULL}
  /\ \A s \in SourceIds :
       (/\ Quiet /\ faults = 0
        /\ \A i \in DOMAIN portal[s] : ~portal[s][i].bad
        /\ getSourceState(s).status_message = "complete")
       => IF IsArcGIS(s)
          THEN /\ getSourceState(s).last_max_objectid /= NULL
               /\ getSourceState(s).last_max_objectid >= AloneMaxObjectId(s)
          ELSE /\ getSourceState(s).last_issue_date /= NULL
               /\ getSourceState(s).last_issue_date >= AloneIssueDate(s)


\* An absent cursor counts as 0.
AbsentAsZero(x) == IF x = NULL THEN 0 ELSE x

\* C29: a feature-service run starts from the larger of the state row's
\* last_max_objectid and the largest source_record_id stored for the source
\* (absent = 0) and asks for OBJECTID > cursor when the cursor is positive;
\* with cursor 0 a backfill asks for all records, an incremental run for
\* the records edited after last_max_timestamp when that is present, else
\* for all records.
C29_StartingCursor ==
  [][\A t \in Tasks :
       (run[t].pc = "open" /\ run'[t].pc = "fetch") =>
         LET cursor == Max(AbsentAsZero(run[t].state.last_max_objectid),
                           AbsentAsZero(getMaxSourceRecordId(run[t].source)))
             ts == run[t].state.last_max_timestamp
         IN  /\ run'[t].startingObjectId = cursor
             /\ run'[t].whereClause =
                  IF cursor > 0 THEN [field |-> "OBJECTID", value |-> cursor]
                  ELSE IF run[t].mode = "incremental" /\ ts /= NULL
                       THEN [field |-> "lastEditDate", value |-> ts]
                       ELSE [field |-> "1=1", value |-> 0]]_vars

\* An incremental run whose state row has a timestamp cursor and a
\* last_max_objectid below the largest stored record id asks for the
\* records above the stored id.
C29_Witness ==
  /\ run["manual"].pc = "fetch"
  /\ run["manual"].mode = "incremental"
  /\ run["manual"].state.last_max_objectid = 1
  /\ run["manual"].state.last_max_timestamp = 1
  /\ getMaxSourceRecordId(1) = 2
  /\ run["manual"].whereClause = [field |-> "OBJECTID", value |-> 2]


\* Task t's step hands a record of the feature service to the orchestrator.
YieldsFeature(t) ==
  /\ run[t].source /= NULL /\ IsArcGIS(run[t].source)
  /\ run'[t].rowsFetched = run[t].rowsFetched + 1

\* Task t's step is a successful upsert of a feature-service record.
UpsertsFeature(t) ==
  /\ run[t].source /= NULL /\ IsArcGIS(run[t].source)
  /\ run'[t].rowsUpserted = run[t].rowsUpserted + 1

\* C30: every record the feature-service connector yields carries a
\* provenance max_objectid that is >= its own OBJECTID, >= the starting
\* cursor of the run and >= the value carried by the record yielded before
\* it (connMaxObjectId is that value while the next record is awaited); the
\* orchestrator's maxObjectId is the maximum of the provenance values of
\* the records upserted so far, and a clean completion after at least one
\* upsert stores it in last_max_objectid.
C30_ProvenanceMaxObjectId ==
  /\ [](\A t \in Tasks :
          (run[t].source /= NULL /\ IsArcGIS(run[t].source) /\ run[t].normalized /= NoPermit)
          => run[t].connMaxObjectId = run[t].normalized.max_objectid)
  /\ [][\A t \in Tasks :
          YieldsFeature(t) =>
            /\ run'[t].normalized.max_objectid >= run'[t].normalized.source_record_id
            /\ run'[t].normalized.max_objectid >= run'[t].startingObjectId
            /\ run'[t].normalized.max_objectid >= run[t].connMaxObjectId]_vars
  /\ [][\A t \in Tasks :
          /\ UpsertsFeature(t) =>
                run'[t].maxObjectId = Max(AbsentAsZero(run[t].maxObjectId),
                                          run[t].normalized.max_objectid)
          /\ (/\ run[t].source /= NULL /\ IsArcGIS(run[t].source)
              /\ run'[t].source = run[t].source
              /\ run'[t].rowsUpserted = run[t].rowsUpserted)
             => run'[t].maxObjectId = run[t].maxObjectId]_vars
  /\ [][\A t \in Tasks : \A s \in SourceIds :
          (CompletesRun(t, s) /\ IsArcGIS(s) /\ run[t].rowsUpserted > 0)
          => getSourceState(s)'.last_max_objectid = run[t].maxObjectId]_vars

\* A run that started from cursor 2, upserted record 3 and failed to upsert
\* record 4 is about to store 3.
C30_Witness ==
  /\ run["sweep"].pc = "final_write"
  /\ run["sweep"].source = 1
  /\ run["sweep"].startingObjectId = 2
  /\ run["sweep"].rowsFetched = 2
  /\ run["sweep"].rowsUpserted = 1
  /\ run["sweep"].connMaxObjectId = 4
  /\ run["sweep"].maxObjectId = 3


\* C31: the page loop ends; it ends with a page of no rows or of fewer rows
\* than requested, or when the rows fetched have reached maxRows, and makes
\* no request after any of these; it yields at most maxRows records; and
\* every page is requested with min(1000, maxRows - fetched) rows.
C31_PageLoopTerminates ==
  /\ <>(pager.pc = "done")
  /\ [](pager.yielded <= pager.maxRows)
  /\ [](pager.pc = "page" =>
          pager.batchLimit = Min(1000, pager.maxRows - pager.fetched))
  /\ [][(pager.pc = "page" /\ pager.rows < pager.batchLimit) =>
          pager'.pc = "done"]_vars
  /\ [][pager.fetched >= pager.maxRows => pager'.pages = pager.pages]_vars
  /\ [](pager.pc = "done" =>
          \/ pager.rows < pager.batchLimit
          \/ pager.fetched >= pager.maxRows)

\* A loop with maxRows 2500 over a corpus of 2600 has ended after three
\* pages of 1000, 1000 and 500 rows.
C31_Witness ==
  /\ pager.pc = "done"
  /\ pager.maxRows = 2500 /\ pager.corpus = 2600
  /\ pager.pages = 3 /\ pager.batchLimit = 500
  /\ pager.yielded = 2500


\* C32: the counters a clean completion writes to the state row satisfy
\* rows_upserted + errors = rows_fetched, and rows_fetched is the number of
\* records the connector yielded in the run (its own count of the rows of
\* the pages it handed out).
C32_CountersAddUp ==
  [][\A t \in Tasks : \A s \in SourceIds :
       CompletesRun(t, s) =>
         LET yielded == run[t].fetched
         IN  /\ getSourceState(s)'.rows_upserted + getSourceState(s)'.errors
                  = getSourceState(s)'.rows_fetched
             /\ getSourceState(s)'.rows_fetched = yielded]_vars

\* A run that was handed two records, stored one and failed to store the
\* other is about to write its counters.
C32_Witness ==
  /\ run["sweep"].pc = "final_write"
  /\ run["sweep"].fetched = 2
  /\ run["sweep"].rowsFetched = 2
  /\ run["sweep"].rowsUpserted = 1
  /\ run["sweep"].errors = 1


\* Task t takes the step that ends its run of source s on the exception
\* path (the failure write, before the rethrow).
FailsRun(t, s) ==
  run[t].pc = "fail_write" /\ run[t].source = s /\ run'[t].pc = "threw"

\* The cursor fields, the last-run counters and last_sync_at of two state
\* rows are the same.
SameLastRun(a, b) ==
  /\ a.last_max_timestamp = b.last_max_timestamp
  /\ a.last_max_objectid = b.last_max_objectid
  /\ a.last_issue_date = b.last_issue_date
  /\ a.rows_fetched = b.rows_fetched
  /\ a.rows_upserted = b.rows_upserted
  /\ a.errors = b.errors
  /\ a.last_sync_at = b.last_sync_at

\* C33: a run that ends on the exception path leaves the cursor fields of
\* the state row as it found them at its start, with is_running false and
\* the failure status; no write of a run other than the final write of a
\* clean completion changes the cursor fields, the counters or
\* last_sync_at; and no stored permit is ever removed.
C33_FailureLeavesCursors ==
  /\ [][\A t \in Tasks : \A s \in SourceIds :
          FailsRun(t, s) =>
            /\ getSourceState(s)'.last_max_timestamp = run[t].state.last_max_timestamp
            /\ getSourceState(s)'.last_max_objectid = run[t].state.last_max_objectid
            /\ getSourceState(s)'.last_issue_date = run[t].state.last_issue_date
            /\ getSourceState(s)'.is_running = 0
            /\ getSourceState(s)'.status_message = "failed"]_vars
  /\ [][(\A t \in Tasks : \A s \in SourceIds : ~CompletesRun(t, s))
          => \A s \in SourceIds : SameLastRun(getSourceState(s), getSourceState(s)')]_vars
  /\ [][\A p \in permits : \E q \in permits' : q.id = p.id]_vars

\* The second run of the feature service failed at its page request: the
\* state row still has the cursor and the counters of the first run.
C33_Witness ==
  /\ run["sweep"].pc = "threw"
  /\ getSourceState(1).status_message = "failed"
  /\ getSourceState(1).is_running = 0
  /\ getSourceState(1).last_max_objectid = 2
  /\ getSourceState(1).rows_fetched = 2
  /\ getSourceState(1).rows_upserted = 2
  /\ getSourceState(1).last_sync_at /= NULL


\* C34: every run that raises an error leaves the failure status on the
\* state row of its source.
C34_EveryErrorIsReported ==
  [][\A t \in Tasks : \A s \in SourceIds :
       (run[t].source = s /\ run[t].pc /= "threw" /\ run'[t].pc = "threw")
       => getSourceState(s)'.status_message = "failed"]_vars

(***************************************************************************)
(* One batch of a source whose max_rows_per_run column may be null or 0:   *)
(* runIngestion derives the cap of the connector from the column, the      *)
(* sweep and runDeepIngestion derive their threshold from the same column. *)
(***************************************************************************)
\* Values of the nullable column sources.max_rows_per_run (schema.ts:44).
MaxRowsColumn == {NULL, 0, 1, 999, 1000, 1001, 2500}

\* routes.ts 337: const maxRows = source.max_rows_per_run || 1000, handed to
\* the connector as the cap of the page loop.
ThresholdStart ==
  /\ pager.pc = "start"
  /\ pager' = [pager EXCEPT !.maxRows = OrElse(pager.max_rows_per_run, DefaultMaxRows),
                            !.pc = "loop"]
  /\ UNCHANGED notPager

\* index.ts 102 and 144: the sweep compares rowsFetched with
\* source.max_rows_per_run || 50000.
ThresholdSweepCompare ==
  /\ pager.pc = "done"
  /\ LET maxRows == OrElse(pager.max_rows_per_run, SweepDefaultMaxRows)
     IN  pager' = [pager EXCEPT !.threshold = maxRows,
                                !.pc = IF pager.fetched < maxRows
                                       THEN "sweep_up_to_date" ELSE "sweep_again"]
  /\ UNCHANGED notPager

\* routes.ts 471 and 488: runDeepIngestion compares permitsAdded (here every
\* fetched row is new) with source.max_rows_per_run || 50000.
ThresholdDeepCompare ==
  /\ pager.pc = "done"
  /\ LET maxRows == OrElse(pager.max_rows_per_run, DeepDefaultMaxRows)
     IN  pager' = [pager EXCEPT !.threshold = maxRows,
                                !.pc = IF pager.fetched < maxRows
                                       THEN "deep_complete" ELSE "deep_again"]
  /\ UNCHANGED notPager

ThresholdInit ==
  /\ portal = [s \in SourceIds |-> IF s = 1 THEN ArcGISRows ELSE SocrataRows(FALSE)]
  /\ sourceState = << >>
  /\ permits = {}
  /\ run = [t \in Tasks |-> IdleRun]
  /\ faults = 0
  /\ triggers = 0
  /\ sweep = IdleSweep
  /\ deep = IdleDeep
  /\ glitches = 0
  /\ clock = 0
  /\ limiter = IdleLimiter
  /\ released = << >>
  /\ classifier = IdleClassifier
  /\ geocoder = IdleGeocoder
  /\ enabled = [s \in SourceIds |-> 1]
  /\ config = [s \in SourceIds |-> FullConfig(s)]
  /\ \E m \in MaxRowsColumn, n \in PagerCorpora, c \in PagerCaps :
       pager = [IdlePager EXCEPT !.pc = "start", !.max_rows_per_run = m,
                                 !.corpus = n, !.cap = c]

ThresholdNext ==
  \/ ThresholdStart
  \/ PagerRequest
  \/ PagerConsume
  \/ ThresholdSweepCompare
  \/ ThresholdDeepCompare

ThresholdSpec == ThresholdInit /\ [][ThresholdNext]_vars

Compared == {"sweep_up_to_date", "sweep_again", "deep_complete", "deep_again"}

\* C35: the threshold the sweep and runDeepIngestion compare a batch with
\* equals the cap runIngestion handed to the connector for that batch.
C35_ThresholdEqualsCap ==
  pager.pc \in Compared => pager.threshold = pager.maxRows

(***************************************************************************)
(* The HTTP requests one source's portal receives.  A page request is sent *)
(* when waitIfNeeded returns; exponentialBackoff sends it again after each *)
(* failure; every runIngestion builds a new connector with a new limiter.  *)
(* released is here the history of the requests sent.                      *)
(***************************************************************************)
\* The delay of the sweep and of runDeepIngestion between two batches.
BatchDelay == 1000

\* part_003 331-341 inside socrata.ts 45 / arcgis.ts 66: fn() threw, the
\* backoff timer ran, fn() sends the request again; the limiter is not
\* asked and its list is not touched.
RetryRequest ==
  /\ limiter.pc = "idle"
  /\ Len(limiter.requestTimes) > 0
  /\ limiter.attempt < maxRetries
  /\ glitches < MaxGlitches
  /\ glitches' = glitches + 1
  /\ \E jitter \in Jitters :
       LET now == clock + backoffDelay(limiter.attempt, jitter)
       IN  /\ clock' = now
           /\ released' = Released(now)
  /\ limiter' = [limiter EXCEPT !.attempt = limiter.attempt + 1]
  /\ UNCHANGED <<portal, sourceState, permits, run, faults, triggers, sweep,
                 enabled, config, classifier, geocoder, pager, deep>>

\* routes.ts 322-335: the run is over and the next runIngestion of the
\* source constructs its connector, whose limiter starts with no request
\* times.
NewConnector ==
  /\ limiter.pc = "idle"
  /\ Len(limiter.requestTimes) > 0
  /\ limiter' = [IdleLimiter EXCEPT !.requestsPerMinute = limiter.requestsPerMinute,
                                    !.calls = limiter.calls]
  /\ clock' = clock + BatchDelay
  /\ UNCHANGED <<portal, sourceState, permits, run, faults, triggers, sweep,
                 enabled, config, classifier, geocoder, pager, deep, glitches,
                 released>>

TrafficNext ==
  \/ WaitIfNeededCall
  \/ WaitIfNeededWake
  \/ RetryRequest
  \/ NewConnector

TrafficSpec == LimiterInit /\ [][TrafficNext]_vars

\* C36: of the requests sent to the portal of a source, any two that have
\* max_requests_per_minute or more requests between the first and the
\* second inclusive of the second are 60 seconds or more apart, so no
\* 60-second window holds more than max_requests_per_minute requests.
C36_RequestsPerMinute ==
  \A i \in DOMAIN released : \A j \in DOMAIN released :
    j - i >= limiter.requestsPerMinute => released[j] - released[i] >= Minute

(***************************************************************************)
(* The sweep over two sources whose corpora are larger than                *)
(* max_rows_per_run, with a portal and a database that never fail.         *)
(***************************************************************************)
\* A dataset with one row more than max_rows_per_run.
SocrataRowsLong ==
  SocrataRowsFull \o << RawRow(3, "g", 3, "v", FALSE) >>

\* runIngestion when no request and no write raises.
CleanRunStep(t) ==
  \/ MarkRead(t) \/ MarkWrite(t) \/ Open(t)
  \/ FetchOk(t)
  \/ ProgRead(t) \/ ProgWrite(t)
  \/ PermitRead(t)
  \/ PermitWriteOk(t)
  \/ FinalRead(t) \/ FinalWrite(t)

\* The sweep when no runIngestion raises: the catch of lines 114-119 is
\* never entered.
CleanSweepStep ==
  \/ SweepGetSources \/ SweepBeforeCount \/ SweepCall
  \/ SweepAfterState \/ SweepAfterCount \/ SweepWake

CorpusInit ==
  /\ portal = [s \in SourceIds |-> IF s = 1 THEN ArcGISRowsLong ELSE SocrataRowsLong]
  /\ sourceState = << >>
  /\ permits = {}
  /\ run = [t \in Tasks |-> IdleRun]
  /\ faults = 0
  /\ triggers = 0
  /\ sweep = IdleSweep
  /\ deep = IdleDeep
  /\ glitches = 0
  /\ clock = 0
  /\ limiter = IdleLimiter
  /\ released = << >>
  /\ classifier = IdleClassifier
  /\ geocoder = IdleGeocoder
  /\ pager = IdlePager
  /\ enabled = [s \in SourceIds |-> 1]
  /\ config = [s \in SourceIds |-> FullConfig(s)]

CorpusNext == CleanRunStep("sweep") \/ CleanSweepStep

CorpusSpec ==
  /\ CorpusInit /\ [][CorpusNext]_vars
  /\ WF_vars(CleanRunStep("sweep"))
  /\ WF_vars(CleanSweepStep)

\* Every record of the portal of source s is stored.
CorpusStored(s) == \A i \in DOMAIN portal[s] : RowStored(portal[s][i])

\* C37: with corpora larger than max_rows_per_run and runs that all
\* succeed, the repeated backfill batches eventually store every record of
\* the feature service and every record of the dataset.
C37_CorpusEventuallyStored ==
  /\ <>CorpusStored(1)
  /\ <>CorpusStored(2)

\* C38: a step of a run of source a leaves the number of permits of every
\* other source b as it was.
C38_OtherSourceCountUnchanged ==
  [][\A t \in Tasks : \A a \in SourceIds : \A b \in SourceIds \ {a} :
       (run[t].source = a /\ \A u \in Tasks \ {t} : run[u].source /= b)
       => getSourcePermitCount(b)' = getSourcePermitCount(b)]_vars

\* The positions in the list of the sweep's enabled sources.
SweepPositions == 1..Cardinality(SourceIds)

\* C39: with runs that all succeed, the loop over the batches of each
\* source ends; the sweep takes the enabled sources one after the other and
\* enters the 5 minute sleep only from the last of them; it reaches the
\* sleep again and again, and starts over after each sleep.
C39_SweepCompletes ==
  /\ \A i \in SweepPositions :
       (sweep.pc = "before_count" /\ sweep.idx = i) ~> (sweep.idx /= i)
  /\ [][sweep.pc = "get_sources" /\ sweep'.pc /= "get_sources"
          => /\ \A s \in SourceIds : enabled[s] /= 0
                   => \E i \in DOMAIN sweep'.enabledSources : sweep'.enabledSources[i] = s
             /\ sweep'.idx = 1]_vars
  /\ [][sweep'.idx /= sweep.idx /\ sweep.pc /= "get_sources"
          => /\ run["sweep"].pc = "done"
             /\ IF sweep.idx < Len(sweep.enabledSources)
                THEN sweep'.idx = sweep.idx + 1 /\ sweep'.pc = "before_count"
                ELSE sweep'.pc = "sleep"]_vars
  /\ [][sweep'.pc = "sleep" /\ sweep.pc /= "sleep"
          => sweep.idx = Len(sweep.enabledSources)]_vars
  /\ []<>(sweep.pc = "sleep")
  /\ []<>(sweep.pc = "get_sources")

\* The sweep sleeps after the feature service was read to its end in three
\* batches and the dataset was left after its third batch without a new
\* permit.
C39_Witness ==
  /\ sweep.pc = "sleep"
  /\ CorpusStored(1)
  /\ getSourceState(1).status_message = "complete"
  /\ getSourceState(2).status_message = "complete"
  /\ RowStored(portal[2][2])
  /\ ~RowStored(portal[2][3])


====
